---------------------------- MODULE Spec2Model ----------------------------
(***************************************************************************)
(* A model of the structural query layer of code-graph-rag (weavr):       *)
(*   - the query tools of src/weavr/tools/structural_queries.py, run      *)
(*     against a property-graph store;                                    *)
(*   - the HTTP transport of src/weavr/http/server.py that wraps every    *)
(*     tool call in a ResponseEnvelope.                                   *)
(*                                                                         *)
(* Text is a sequence of one-character strings, so that upper(), strip()  *)
(* and the substring tests of the ad-hoc guard are computed, not assumed. *)
(* Qualified names are natural numbers (only equality and order matter);  *)
(* the empty string is the name 0.  Wall-clock values (execution_time_ms, *)
(* timestamp) and file_path / line_number properties are left out of the  *)
(* records: no operation branches on them.                                *)
(***************************************************************************)
EXTENDS Integers, Sequences, FiniteSets, TLC

VARIABLES
    graph,                  \* the store: nodes, edges, and a write counter
    request,                \* the call being served: tool and arguments
    result,                 \* what the tool handler returned (a dict), or None
    response,               \* the envelope the transport returned, or None
    issued,                 \* statements issued to the store for this request
    invoked,                \* the handlers called for this request, in order
    server_initialized,     \* server.py global _server_initialized
    mcp_tools_registry,     \* server.py global _mcp_tools_registry
    phase,                  \* lifespan position: "created", "serving", "stopped"
    store_reachable,        \* whether the graph store accepts connections
    tasks,                  \* handler invocations gathered on one event loop
    ingestor,               \* the graph writer: its buffers and the store it writes
    ingestion               \* the ingestion run driving the writer, or None

vars == <<graph, request, result, response, issued, invoked,
          server_initialized, mcp_tools_registry, phase, store_reachable,
          tasks, ingestor, ingestion>>

Min(a, b) == IF a <= b THEN a ELSE b

(***************************************************************************)
(* Text                                                                    *)
(***************************************************************************)

UpperOf ==
    ("a" :> "A") @@ ("b" :> "B") @@ ("c" :> "C") @@ ("d" :> "D") @@
    ("e" :> "E") @@ ("f" :> "F") @@ ("g" :> "G") @@ ("h" :> "H") @@
    ("i" :> "I") @@ ("j" :> "J") @@ ("k" :> "K") @@ ("l" :> "L") @@
    ("m" :> "M") @@ ("n" :> "N") @@ ("o" :> "O") @@ ("p" :> "P") @@
    ("q" :> "Q") @@ ("r" :> "R") @@ ("s" :> "S") @@ ("t" :> "T") @@
    ("u" :> "U") @@ ("v" :> "V") @@ ("w" :> "W") @@ ("x" :> "X") @@
    ("y" :> "Y") @@ ("z" :> "Z")

\* str.upper()
Upper(s) == [i \in 1..Len(s) |-> IF s[i] \in DOMAIN UpperOf THEN UpperOf[s[i]] ELSE s[i]]

\* str.lower()
Lower(s) ==
    [i \in 1..Len(s) |->
        IF \E c \in DOMAIN UpperOf : UpperOf[c] = s[i]
        THEN CHOOSE c \in DOMAIN UpperOf : UpperOf[c] = s[i]
        ELSE s[i]]

WhiteSpace == {" ", "\n", "\t", "\r"}

RECURSIVE LStrip(_)
LStrip(s) == IF s # <<>> /\ Head(s) \in WhiteSpace THEN LStrip(Tail(s)) ELSE s

RECURSIVE RStrip(_)
RStrip(s) ==
    IF s # <<>> /\ s[Len(s)] \in WhiteSpace THEN RStrip(SubSeq(s, 1, Len(s) - 1)) ELSE s

\* str.strip()
Strip(s) == RStrip(LStrip(s))

\* needle in hay (needle is never empty here)
Contains(hay, needle) ==
    \E i \in 1..(Len(hay) - Len(needle) + 1) :
        SubSeq(hay, i, i + Len(needle) - 1) = needle

\* s[:n]
Prefix(s, n) == SubSeq(s, 1, Min(n, Len(s)))

WordChars ==
    DOMAIN UpperOf \cup {UpperOf[c] : c \in DOMAIN UpperOf}
        \cup {"0", "1", "2", "3", "4", "5", "6", "7", "8", "9", "_"}

\* word occurs in s delimited by non-word characters or the ends of s
ContainsWord(s, word) ==
    \E i \in 1..(Len(s) - Len(word) + 1) :
        /\ SubSeq(s, i, i + Len(word) - 1) = word
        /\ (i = 1 \/ s[i - 1] \notin WordChars)
        /\ (i + Len(word) - 1 = Len(s) \/ s[i + Len(word)] \notin WordChars)

KwCREATE == <<"C", "R", "E", "A", "T", "E">>
KwDELETE == <<"D", "E", "L", "E", "T", "E">>
KwDETACH_DELETE == <<"D", "E", "T", "A", "C", "H", " ">> \o KwDELETE
KwDROP == <<"D", "R", "O", "P">>
KwSET == <<"S", "E", "T">>
KwMERGE == <<"M", "E", "R", "G", "E">>
KwREMOVE == <<"R", "E", "M", "O", "V", "E">>
KwCREATE_INDEX == KwCREATE \o <<" ", "I", "N", "D", "E", "X">>
KwCREATE_CONSTRAINT ==
    KwCREATE \o <<" ", "C", "O", "N", "S", "T", "R", "A", "I", "N", "T">>
KwSpacedSET == <<" ">> \o KwSET \o <<" ">>


(***************************************************************************)
(* Dicts.  A Python dict is a function with a finite domain of keys; Nil  *)
(* stands for None wherever a dict (or nothing) is expected.              *)
(***************************************************************************)

Nil == <<>>

Has(d, k) == k \in DOMAIN d

\* d.get(k, default), and a keyword argument left to its Python default
Get(d, k, default) == IF k \in DOMAIN d THEN d[k] ELSE default

(***************************************************************************)
(* Error handling utilities                                                *)
(***************************************************************************)

\* create_error_response: suggestion and provided_input are kept when truthy
create_error_response(error_type, message, suggestion, provided_input) ==
    [error |-> message, error_code |-> error_type]
        @@ (IF suggestion # "" THEN [suggestion |-> suggestion] ELSE Nil)
        @@ (IF provided_input # Nil THEN [provided_input |-> provided_input] ELSE Nil)

handle_node_not_found(qualified_name, node_type) ==
    create_error_response(
        "NODE_NOT_FOUND",
        "not found in code graph",
        "1. Verify the codebase has been indexed 2. Check qualified name format 3. Use query_cypher",
        [name |-> qualified_name, node_type |-> node_type])

ProvidedInputChars == 100

\* handle_query_timeout: the input is echoed cut to 100 characters
handle_query_timeout(query) ==
    create_error_response(
        "QUERY_TIMEOUT",
        "Query exceeded time limit",
        "Possible reasons / Suggestions",
        [query |-> Prefix(query, ProvidedInputChars)])

\* StructuralQueryTool.handle_error; error is the exception raised:
\* [type |-> "NodeNotFoundError", qualified_name, node_type],
\* [type |-> "QueryTimeoutError"] or [type |-> "Exception", text |-> ...]
handle_error(error, context) ==
    IF error.type = "NodeNotFoundError"
    THEN handle_node_not_found(error.qualified_name, error.node_type)
    ELSE IF error.type = "QueryTimeoutError"
    THEN handle_query_timeout(<<>>)
    ELSE create_error_response(
             "UNKNOWN_ERROR",
             "An unexpected error occurred",
             "Check the logs for more details or contact support.",
             context)

(***************************************************************************)
(* Result truncation                                                       *)
(***************************************************************************)

ExpertDefaultLimit == 50
PrebuiltDefaultLimit == 100

\* a variant of apply_truncation that reports truncation as soon as the
\* limit is reached
apply_truncation_at_limit(results, limit, query_type) ==
    LET default_limit == IF query_type = "expert" THEN ExpertDefaultLimit
                         ELSE PrebuiltDefaultLimit
        effective_limit == IF limit > 0 THEN limit ELSE default_limit
        total_count == Len(results)
        truncated == total_count >= effective_limit
    IN  IF truncated
        THEN [results |-> SubSeq(results, 1, effective_limit),
              was_truncated |-> TRUE, total_count |-> total_count]
        ELSE [results |-> results, was_truncated |-> FALSE, total_count |-> total_count]

\* apply_truncation -> [results, was_truncated, total_count]
apply_truncation(results, limit, query_type) ==
    LET default_limit == IF query_type = "expert" THEN ExpertDefaultLimit
                         ELSE PrebuiltDefaultLimit
        effective_limit == IF limit > 0 THEN limit ELSE default_limit
        total_count == Len(results)
        truncated == total_count > effective_limit
    IN  IF truncated
        THEN [results |-> SubSeq(results, 1, effective_limit),
              was_truncated |-> TRUE, total_count |-> total_count]
        ELSE [results |-> results, was_truncated |-> FALSE, total_count |-> total_count]

\* create_truncation_message
create_truncation_message(shown_count, total_count) ==
    IF shown_count >= total_count THEN "All results shown."
    ELSE "Showing some results. Refine your query for more specific results."

PrebuiltTruncateLimit == 100

\* StructuralQueryTool.format_results (truncate_limit is 100 in every prebuilt tool)
format_results(rows, query_description) ==
    LET t == apply_truncation(rows, PrebuiltTruncateLimit, "prebuilt")
    IN  [query |-> query_description,
         results |-> t.results,
         metadata |-> [row_count |-> Len(t.results),
                       total_count |-> t.total_count,
                       truncated |-> t.was_truncated,
                       query_type |-> "structural"]]


(***************************************************************************)
(* The store as the query layer sees it.  A call to                       *)
(* ingestor.execute_structural_query / fetch_all either returns rows or   *)
(* raises; StoreOutcome is what this call does.                           *)
(***************************************************************************)

Raises(text) == [kind |-> "raise", type |-> "Exception", text |-> text]
Returns(n) == [kind |-> "rows", n |-> n]

\* the rows of an ad-hoc query: n rows of one column
AdhocRows(n) == [i \in 1..n |-> [col |-> i]]

Statement(via, query_name, params) ==
    [via |-> via, query_name |-> query_name, params |-> params]

MutationKeywords == {KwCREATE, KwMERGE, KwDELETE, KwSET, KwREMOVE, KwDROP}

\* Cypher keywords are case-insensitive words: the store writes when the
\* statement it is handed holds a write clause
IsWriteStatement(query) ==
    \E kw \in MutationKeywords : ContainsWord(Upper(query), kw)

\* the store after it has executed the statement
StoreAfter(g, query) ==
    IF IsWriteStatement(query) THEN [g EXCEPT !.modified = TRUE] ELSE g

(***************************************************************************)
(* The property graph behind the ingestor.  A qualified name is a number  *)
(* (0 is the empty string); names are ordered as numbers.  nodes maps a   *)
(* qualified name to the node's label and whether its short name starts   *)
(* with an underscore; edges holds [src, type, dst].                      *)
(***************************************************************************)

NodesOf(names, label) == [n \in names |-> [label |-> label, private |-> FALSE]]
PrivateNodesOf(names, label) == [n \in names |-> [label |-> label, private |-> TRUE]]
Edge(src, type, dst) == [src |-> src, type |-> type, dst |-> dst]

EmptyGraph == [nodes |-> NodesOf({}, "Function"), edges |-> {}, modified |-> FALSE]

\* MATCH (n:L1|L2 {qualified_name: $name})
HasNode(g, name, labels) == name \in DOMAIN g.nodes /\ g.nodes[name].label \in labels

FunctionOrMethod == {"Function", "Method"}

Last(s) == s[Len(s)]
Reverse(s) == [i \in 1..Len(s) |-> s[Len(s) + 1 - i]]

\* the relationships of a path, as (from, to) pairs of its node sequence
HopsOf(p) == {<<p[i], p[i + 1]>> : i \in 1..(Len(p) - 1)}

\* one more relationship of the type from the path's end; a relationship is
\* traversed once per path
Extend(g, type, p) ==
    {Append(p, e.dst) :
        e \in {e \in g.edges : /\ e.type = type
                               /\ e.src = Last(p)
                               /\ <<e.src, e.dst>> \notin HopsOf(p)}}

ExtendBack(g, type, p) ==
    {Append(p, e.src) :
        e \in {e \in g.edges : /\ e.type = type
                               /\ e.dst = Last(p)
                               /\ <<e.dst, e.src>> \notin HopsOf(p)}}

RECURSIVE Expand(_, _, _, _, _)
\* the paths that lengthen a path of the frontier by 1..k relationships
Expand(g, type, forward, frontier, k) ==
    IF k = 0 \/ frontier = {} THEN {}
    ELSE LET next == UNION {IF forward THEN Extend(g, type, p)
                            ELSE ExtendBack(g, type, p) : p \in frontier}
         IN  next \cup Expand(g, type, forward, next, k - 1)

\* (start)-[:type*1..max_depth]->(x): node sequences from start
PathsFrom(g, type, start, max_depth) ==
    IF start \in DOMAIN g.nodes THEN Expand(g, type, TRUE, {<<start>>}, max_depth)
    ELSE {}

\* a variant of the backward match that follows one relationship more than
\* the depth asked for
PathsIntoOneMore(g, type, end, max_depth) ==
    IF end \in DOMAIN g.nodes THEN Expand(g, type, FALSE, {<<end>>}, max_depth + 1)
    ELSE {}

\* (x)-[:type*1..max_depth]->(end): node sequences listed from end backwards
PathsInto(g, type, end, max_depth) ==
    IF end \in DOMAIN g.nodes THEN Expand(g, type, FALSE, {<<end>>}, max_depth)
    ELSE {}

\* ORDER BY: rows carry their sort key, a sequence of numbers compared
\* left to right; rows the ORDER BY leaves tied are put in the order of the
\* rest of the key
LexLess(a, b) ==
    \/ \E i \in 1..Min(Len(a), Len(b)) :
          a[i] < b[i] /\ \A j \in 1..(i - 1) : a[j] = b[j]
    \/ Len(a) < Len(b) /\ \A j \in 1..Len(a) : a[j] = b[j]

\* the rows in ascending order of their keys
OrderBy(S) ==
    LET ranked == {[rank |-> Cardinality({y \in S : LexLess(y.key, x.key)}) + 1,
                    item |-> x] : x \in S}
    IN  [k \in 1..Cardinality(S) |-> (CHOOSE r \in ranked : r.rank = k).item]

RowsOf(keyed) == [i \in 1..Len(keyed) |-> keyed[i].row]

IndexSeq(n) == [i \in 1..n |-> i]

\* the positions of a sequence that hold the first occurrence of their value
FirstOccurrences(names) ==
    {i \in 1..Len(names) : \A j \in 1..(i - 1) : names[j] # names[i]}

\* what the calls into the store do besides returning rows: nothing, the
\* first call of the handler raises an exception of the type named, or the
\* cycle-detection statement alone raises an Exception
FirstCallFaults == {"Exception", "QueryTimeoutError"}

CycleQueryFault == "CycleQueryException"

StoreFaults == {"none", CycleQueryFault} \cup FirstCallFaults

Raised(fault) == [kind |-> "raise", type |-> fault, text |-> <<"s", "y", "n", "t", "a", "x">>]

(***************************************************************************)
(* find_callers                                                            *)
(***************************************************************************)

CallersMinDepth == 1
CallersMaxDepth == 5
CallersQueryLimit == 100

\* the two MATCH queries of FindCallersQuery.execute, as sorted rows
FindCallersRows(g, function_name, max_depth) ==
    LET paths == IF HasNode(g, function_name, FunctionOrMethod)
                 THEN {p \in PathsInto(g, "CALLS", function_name, max_depth) :
                          HasNode(g, Last(p), FunctionOrMethod)}
                 ELSE {}
        keyed == {[key |-> <<Len(p) - 1, Last(p)>> \o Reverse(p),
                   row |-> IF max_depth = 1
                           THEN [caller_name |-> Last(p),
                                 type |-> g.nodes[Last(p)].label]
                           ELSE [caller_name |-> Last(p),
                                 type |-> g.nodes[Last(p)].label,
                                 depth |-> Len(p) - 1,
                                 call_chain |-> Reverse(p)]] : p \in paths}
    IN  Prefix(RowsOf(OrderBy(keyed)), CallersQueryLimit)

\* a variant of execute that reports an empty traversal as a missing node
\* without asking the store whether the node exists
FindCallersExecuteNoCheck(g, function_name, max_depth, include_paths, fault) ==
    LET context == [function_name |-> function_name, max_depth |-> max_depth]
        run == Statement("execute_structural_query", "find_callers",
                         [name |-> function_name])
        results == FindCallersRows(g, function_name, max_depth)
    IN  IF max_depth < CallersMinDepth \/ max_depth > CallersMaxDepth
        THEN [result |-> create_error_response(
                             "INVALID_PARAMETER", "max_depth must be between 1 and 5",
                             "Use max_depth=1 for direct callers", context),
              issued |-> <<>>]
        ELSE IF fault \in FirstCallFaults
        THEN [result |-> handle_error(Raised(fault), context), issued |-> <<run>>]
        ELSE IF results = <<>>
        THEN [result |-> handle_node_not_found(function_name, "Function"),
              issued |-> <<run>>]
        ELSE [result |-> format_results(
                             [i \in 1..Len(results) |->
                                 [caller |-> results[i].caller_name,
                                  type |-> results[i].type]],
                             [text |-> "Callers of", name |-> function_name,
                              max_depth |-> max_depth]),
              issued |-> <<run>>]

\* FindCallersQuery.execute -> [result, issued]
FindCallersExecute(g, function_name, max_depth, include_paths, fault) ==
    LET context == [function_name |-> function_name, max_depth |-> max_depth]
        run == Statement("execute_structural_query", "find_callers",
                         [name |-> function_name])
        check == Statement("fetch_all", "check", [name |-> function_name])
        results == FindCallersRows(g, function_name, max_depth)
        formatted_results ==
            [i \in 1..Len(results) |->
                IF max_depth > 1
                THEN [caller |-> results[i].caller_name, type |-> results[i].type,
                      depth |-> results[i].depth,
                      call_chain |-> results[i].call_chain]
                ELSE [caller |-> results[i].caller_name, type |-> results[i].type]]
    IN  IF max_depth < CallersMinDepth \/ max_depth > CallersMaxDepth
        THEN [result |-> create_error_response(
                             "INVALID_PARAMETER", "max_depth must be between 1 and 5",
                             "Use max_depth=1 for direct callers", context),
              issued |-> <<>>]
        ELSE IF fault \in FirstCallFaults
        THEN [result |-> handle_error(Raised(fault), context), issued |-> <<run>>]
        ELSE IF results = <<>> /\ ~HasNode(g, function_name, FunctionOrMethod)
        THEN [result |-> handle_node_not_found(function_name, "Function"),
              issued |-> <<run, check>>]
        ELSE [result |-> format_results(
                             formatted_results,
                             [text |-> "Callers of", name |-> function_name,
                              max_depth |-> max_depth]),
              issued |-> IF results = <<>> THEN <<run, check>> ELSE <<run>>]

(***************************************************************************)
(* dependency_analysis                                                     *)
(***************************************************************************)

DirectDependencyLimit == 100
TransitiveDependencyLimit == 50
TransitiveDependencyDepth == 3

\* names whose first dotted component is a standard library module
StdlibNames == {31}

\* _is_standard_library
is_standard_library(module_name) == module_name \in StdlibNames

\* _categorize_dependencies
categorize_dependencies(dependencies) ==
    [i \in 1..Len(dependencies) |->
        dependencies[i] @@
        [category |-> IF dependencies[i].dependency_type = "ExternalPackage"
                      THEN "external"
                      ELSE IF is_standard_library(dependencies[i].dependency_name)
                      THEN "standard_library"
                      ELSE "internal"]]

\* rows of one dependency query: paths over rel from target whose ends carry
\* the labels the query asks for
DependencyRows(g, target, rel, source_labels, dep_labels, include_transitive) ==
    LET paths == IF HasNode(g, target, source_labels)
                 THEN {p \in PathsFrom(g, rel, target,
                                       IF include_transitive
                                       THEN TransitiveDependencyDepth ELSE 1) :
                          HasNode(g, Last(p), dep_labels)}
                 ELSE {}
        keyed == {[key |-> <<Len(p) - 1, Last(p)>> \o p,
                   row |-> IF include_transitive
                           THEN [dependency_name |-> Last(p),
                                 short_name |-> Last(p),
                                 dependency_type |-> g.nodes[Last(p)].label,
                                 depth |-> Len(p) - 1,
                                 chain |-> p]
                           ELSE [dependency_name |-> Last(p),
                                 short_name |-> Last(p),
                                 dependency_type |-> g.nodes[Last(p)].label]] :
                  p \in paths}
    IN  Prefix(RowsOf(OrderBy(keyed)),
               IF include_transitive THEN TransitiveDependencyLimit
               ELSE DirectDependencyLimit)

\* _query_import_dependencies
query_import_dependencies(g, target, include_transitive) ==
    DependencyRows(g, target, "IMPORTS", {"Module", "Function", "Method"},
                   {"Module", "ExternalPackage"}, include_transitive)

\* _query_call_dependencies
query_call_dependencies(g, target, include_transitive) ==
    DependencyRows(g, target, "CALLS", FunctionOrMethod, FunctionOrMethod,
                   include_transitive)

\* _build_dependency_graph
build_dependency_graph(target, imports, calls) ==
    [root |-> target,
     adjacent |-> [i \in 1..Len(imports) |-> imports[i].dependency_name]
                  \o [i \in 1..Len(calls) |-> calls[i].dependency_name]]

DependencyTypes == {"imports", "calls", "all"}

\* DependencyAnalysisQuery.execute -> [result, issued]
DependencyAnalysisExecute(g, target, dependency_type, include_transitive, fault) ==
    LET context == [target |-> target, dependency_type |-> dependency_type]
        want_imports == dependency_type \in {"imports", "all"}
        want_calls == dependency_type \in {"calls", "all"}
        imports == IF want_imports
                   THEN query_import_dependencies(g, target, include_transitive)
                   ELSE <<>>
        calls == IF want_calls
                 THEN query_call_dependencies(g, target, include_transitive)
                 ELSE <<>>
        run_imports == Statement("execute_structural_query",
                                 "dependency_analysis(imports)", [target |-> target])
        run_calls == Statement("execute_structural_query",
                               "dependency_analysis(calls)", [target |-> target])
        check == Statement("fetch_all", "check", [name |-> target])
        ran == (IF want_imports THEN <<run_imports>> ELSE <<>>)
               \o (IF want_calls THEN <<run_calls>> ELSE <<>>)
    IN  IF dependency_type \notin DependencyTypes
        THEN [result |-> create_error_response(
                             "INVALID_PARAMETER", "Invalid dependency_type parameter",
                             "Use dependency_type=all", context),
              issued |-> <<>>]
        ELSE IF fault \in FirstCallFaults
        THEN [result |-> handle_error(Raised(fault), context),
              issued |-> <<Head(ran)>>]
        ELSE IF /\ imports = <<>>
                /\ calls = <<>>
                /\ ~HasNode(g, target, {"Module", "Function", "Method", "Class"})
        THEN [result |-> handle_node_not_found(target, "Module/Function"),
              issued |-> Append(ran, check)]
        ELSE [result |->
                  [query |-> [text |-> "Dependencies of", name |-> target,
                              dependency_type |-> dependency_type],
                   imports |-> categorize_dependencies(imports),
                   calls |-> categorize_dependencies(calls),
                   dependency_graph |-> build_dependency_graph(target, imports, calls),
                   metadata |-> [row_count |-> Len(imports) + Len(calls),
                                 total_count |-> Len(imports) + Len(calls),
                                 truncated |-> FALSE,
                                 query_type |-> "structural",
                                 include_transitive |-> include_transitive]],
              issued |-> IF imports = <<>> /\ calls = <<>>
                         THEN Append(ran, check) ELSE ran]

(***************************************************************************)
(* interface_implementations                                               *)
(***************************************************************************)

ImplementationsQueryLimit == 100
IndirectImplementationsDepth == 10

\* _query_implements and _query_inherits: the classes with a path over rel
\* into the class named interface_name
ImplementationRows(g, interface_name, rel, include_indirect) ==
    LET paths == IF HasNode(g, interface_name, {"Class"})
                 THEN {p \in PathsInto(g, rel, interface_name,
                                       IF include_indirect
                                       THEN IndirectImplementationsDepth ELSE 1) :
                          HasNode(g, Last(p), {"Class"})}
                 ELSE {}
        keyed == {[key |-> <<Len(p) - 1, Last(p)>> \o Reverse(p),
                   row |-> [class_name |-> Last(p),
                            short_name |-> Last(p),
                            depth |-> Len(p) - 1]] : p \in paths}
    IN  Prefix(RowsOf(OrderBy(keyed)), ImplementationsQueryLimit)

\* a variant that keeps the entry a class is first seen with, whatever its
\* depth
deduplicate_keeping_first(implementations) ==
    LET firsts == FirstOccurrences([i \in 1..Len(implementations) |->
                                       implementations[i].class_name])
        sorted == RowsOf(OrderBy({[key |-> <<implementations[i].depth,
                                              implementations[i].class_name>>,
                                    row |-> implementations[i]] : i \in firsts}))
    IN  sorted

\* _deduplicate_implementations: one entry per class, the one of least
\* depth, sorted by (depth, class_name)
deduplicate_implementations(implementations) ==
    LET sorted == RowsOf(OrderBy({[key |-> <<implementations[i].depth,
                                              implementations[i].class_name, i>>,
                                    row |-> implementations[i]] :
                                   i \in 1..Len(implementations)}))
        firsts == FirstOccurrences([i \in 1..Len(sorted) |-> sorted[i].class_name])
        kept == SelectSeq(IndexSeq(Len(sorted)), LAMBDA i : i \in firsts)
    IN  [k \in 1..Len(kept) |-> sorted[kept[k]]]

\* InterfaceImplementationsQuery.execute -> [result, issued]
InterfaceImplementationsExecute(g, interface_name, include_indirect, fault) ==
    LET context == [interface_name |-> interface_name,
                    include_indirect |-> include_indirect]
        run_implements == Statement("execute_structural_query",
                                    "interface_implementations(IMPLEMENTS)",
                                    [name |-> interface_name])
        run_inherits == Statement("execute_structural_query",
                                  "interface_implementations(INHERITS)",
                                  [name |-> interface_name])
        check == Statement("fetch_all", "check", [name |-> interface_name])
        implementations ==
            ImplementationRows(g, interface_name, "IMPLEMENTS", include_indirect)
            \o ImplementationRows(g, interface_name, "INHERITS", include_indirect)
        unique_implementations == deduplicate_implementations(implementations)
    IN  IF fault \in FirstCallFaults
        THEN [result |-> handle_error(Raised(fault), context),
              issued |-> <<run_implements>>]
        ELSE IF unique_implementations = <<>> /\ ~HasNode(g, interface_name, {"Class"})
        THEN [result |-> handle_node_not_found(interface_name, "Interface/Class"),
              issued |-> <<run_implements, run_inherits, check>>]
        ELSE [result |->
                  [query |-> [text |-> "Implementations of", name |-> interface_name],
                   implementations |-> unique_implementations,
                   inheritance_depth |->
                       [c \in {unique_implementations[i].class_name :
                                  i \in 1..Len(unique_implementations)} |->
                           unique_implementations[
                               CHOOSE i \in 1..Len(unique_implementations) :
                                   unique_implementations[i].class_name = c].depth],
                   metadata |-> [row_count |-> Len(unique_implementations),
                                 total_count |-> Len(unique_implementations),
                                 truncated |-> FALSE,
                                 query_type |-> "structural",
                                 include_indirect |-> include_indirect]],
              issued |-> IF unique_implementations = <<>>
                         THEN <<run_implements, run_inherits, check>>
                         ELSE <<run_implements, run_inherits>>]

(***************************************************************************)
(* call_graph_generator                                                    *)
(***************************************************************************)

CallGraphMinDepth == 1
CallGraphMaxDepth == 5
CallGraphMinNodes == 1
CallGraphMaxNodes == 100
CallGraphQueryLimit == 200

\* the MATCH query of CallGraphGeneratorQuery.execute, as sorted rows
CallGraphRows(g, entry_point, max_depth) ==
    LET paths == IF HasNode(g, entry_point, FunctionOrMethod)
                 THEN {p \in PathsFrom(g, "CALLS", entry_point, max_depth) :
                          HasNode(g, Last(p), FunctionOrMethod)}
                 ELSE {}
        keyed == {[key |-> <<Len(p) - 1, Last(p)>> \o p,
                   row |-> [entry_name |-> entry_point,
                            called_name |-> Last(p),
                            short_name |-> Last(p),
                            node_type |-> g.nodes[Last(p)].label,
                            depth |-> Len(p) - 1]] : p \in paths}
    IN  Prefix(RowsOf(OrderBy(keyed)), CallGraphQueryLimit)

\* _extract_nodes_and_edges -> [nodes, edges]
extract_nodes_and_edges(results, entry_point) ==
    LET called == [i \in 1..Len(results) |-> results[i].called_name]
        first_seen == FirstOccurrences(called)
        fresh == SelectSeq(IndexSeq(Len(called)),
                           LAMBDA i : i \in first_seen /\ called[i] # entry_point)
        called_nodes == [k \in 1..Len(fresh) |->
                            [id |-> called[fresh[k]],
                             name |-> results[fresh[k]].short_name,
                             type |-> results[fresh[k]].node_type]]
        firsts == SelectSeq(IndexSeq(Len(called)), LAMBDA i : i \in first_seen)
    IN  [nodes |-> IF results = <<>> THEN <<>>
                   ELSE <<[id |-> entry_point, name |-> entry_point,
                           type |-> "Function"]>> \o called_nodes,
         edges |-> [k \in 1..Len(firsts) |->
                       [from |-> results[firsts[k]].entry_name,
                        to |-> called[firsts[k]],
                        call_type |-> "direct"]]]

\* _truncate_nodes -> [nodes, was_truncated, total_count]
truncate_nodes(nodes, max_nodes) ==
    LET total_count == Len(nodes)
        was_truncated == total_count > max_nodes
    IN  IF was_truncated
        THEN [nodes |-> SubSeq(nodes, 1, max_nodes), was_truncated |-> TRUE,
              total_count |-> total_count]
        ELSE [nodes |-> nodes, was_truncated |-> FALSE, total_count |-> total_count]

\* _create_empty_graph_result
create_empty_graph_result(entry_point, max_depth) ==
    [query |-> [text |-> "Call graph from", name |-> entry_point,
                max_depth |-> max_depth],
     nodes |-> <<[id |-> entry_point, name |-> entry_point, type |-> "Function"]>>,
     edges |-> <<>>,
     truncated |-> FALSE,
     total_nodes |-> 1,
     metadata |-> [row_count |-> 1, total_count |-> 1, truncated |-> FALSE,
                   query_type |-> "structural", max_depth |-> max_depth]]

\* CallGraphGeneratorQuery.execute -> [result, issued]
CallGraphGeneratorExecute(g, entry_point, max_depth, max_nodes, fault) ==
    LET run == Statement("execute_structural_query", "call_graph_generator",
                         [entry_point |-> entry_point])
        check == Statement("fetch_all", "check", [entry_point |-> entry_point])
        results == CallGraphRows(g, entry_point, max_depth)
        extracted == extract_nodes_and_edges(results, entry_point)
        t == truncate_nodes(extracted.nodes, max_nodes)
        node_ids == {t.nodes[i].id : i \in 1..Len(t.nodes)}
        filtered_edges == SelectSeq(extracted.edges,
                                    LAMBDA edge : edge.from \in node_ids
                                                  /\ edge.to \in node_ids)
        base == [query |-> [text |-> "Call graph from", name |-> entry_point,
                            max_depth |-> max_depth],
                 nodes |-> t.nodes,
                 edges |-> filtered_edges,
                 truncated |-> t.was_truncated,
                 total_nodes |-> t.total_count,
                 metadata |-> [row_count |-> Len(t.nodes),
                               total_count |-> t.total_count,
                               truncated |-> t.was_truncated,
                               query_type |-> "structural",
                               max_depth |-> max_depth]]
    IN  IF max_depth < CallGraphMinDepth \/ max_depth > CallGraphMaxDepth
        THEN [result |-> create_error_response(
                             "INVALID_PARAMETER", "max_depth must be between 1 and 5",
                             "Use max_depth=3 for typical call graphs",
                             [entry_point |-> entry_point, max_depth |-> max_depth]),
              issued |-> <<>>]
        ELSE IF max_nodes < CallGraphMinNodes \/ max_nodes > CallGraphMaxNodes
        THEN [result |-> create_error_response(
                             "INVALID_PARAMETER", "max_nodes must be between 1 and 100",
                             "Use max_nodes=50 for balanced detail",
                             [entry_point |-> entry_point, max_nodes |-> max_nodes]),
              issued |-> <<>>]
        ELSE IF fault \in FirstCallFaults
        THEN [result |-> handle_error(Raised(fault),
                                      [entry_point |-> entry_point,
                                       max_depth |-> max_depth,
                                       max_nodes |-> max_nodes]),
              issued |-> <<run>>]
        ELSE IF results = <<>>
        THEN [result |-> IF HasNode(g, entry_point, FunctionOrMethod)
                         THEN create_empty_graph_result(entry_point, max_depth)
                         ELSE handle_node_not_found(entry_point, "Function/Method"),
              issued |-> <<run, check>>]
        ELSE [result |-> IF t.was_truncated
                         THEN base @@ [truncation_message |-> "Graph truncated"]
                         ELSE base,
              issued |-> <<run>>]

(***************************************************************************)
(* class_hierarchy                                                         *)
(***************************************************************************)

HierarchyMinDepth == 1
HierarchyMaxDepth == 10
AncestorsQueryLimit == 20
DescendantsQueryLimit == 50

Directions == {"up", "down", "both"}

\* the ancestor query: ORDER BY depth, LIMIT 20
AncestorRows(g, class_name, max_depth) ==
    LET paths == IF HasNode(g, class_name, {"Class"})
                 THEN {p \in PathsFrom(g, "INHERITS", class_name, max_depth) :
                          HasNode(g, Last(p), {"Class"})}
                 ELSE {}
        keyed == {[key |-> <<Len(p) - 1, Last(p)>> \o p,
                   row |-> [class_name |-> Last(p),
                            short_name |-> Last(p),
                            depth |-> Len(p) - 1,
                            inheritance_chain |-> Tail(p)]] : p \in paths}
    IN  Prefix(RowsOf(OrderBy(keyed)), AncestorsQueryLimit)

\* a descendant query without its LIMIT
DescendantRowsUnlimited(g, class_name, max_depth) ==
    LET paths == IF HasNode(g, class_name, {"Class"})
                 THEN {p \in PathsInto(g, "INHERITS", class_name, max_depth) :
                          HasNode(g, Last(p), {"Class"})}
                 ELSE {}
        keyed == {[key |-> <<Len(p) - 1, Last(p)>> \o p,
                   row |-> [class_name |-> Last(p),
                            short_name |-> Last(p),
                            depth |-> Len(p) - 1]] : p \in paths}
    IN  RowsOf(OrderBy(keyed))

\* the descendant query: ORDER BY depth, LIMIT 50
DescendantRows(g, class_name, max_depth) ==
    LET paths == IF HasNode(g, class_name, {"Class"})
                 THEN {p \in PathsInto(g, "INHERITS", class_name, max_depth) :
                          HasNode(g, Last(p), {"Class"})}
                 ELSE {}
        keyed == {[key |-> <<Len(p) - 1, Last(p)>> \o p,
                   row |-> [class_name |-> Last(p),
                            short_name |-> Last(p),
                            depth |-> Len(p) - 1]] : p \in paths}
    IN  Prefix(RowsOf(OrderBy(keyed)), DescendantsQueryLimit)

\* a variant of the cycle query that follows a single relationship only
detect_self_inheritance(g, class_name) ==
    IF Edge(class_name, "INHERITS", class_name) \in g.edges
    THEN <<class_name, class_name>> ELSE <<>>

\* _detect_circular_inheritance: the first path from the class back to
\* itself, or the empty list
detect_circular_inheritance(g, class_name) ==
    LET cycles == IF HasNode(g, class_name, {"Class"})
                  THEN {p \in PathsFrom(g, "INHERITS", class_name,
                                        Cardinality(g.edges)) :
                           Last(p) = class_name}
                  ELSE {}
        keyed == {[key |-> p, row |-> p] : p \in cycles}
    IN  IF cycles = {} THEN <<>> ELSE RowsOf(OrderBy(keyed))[1]

\* _build_hierarchy_tree
build_hierarchy_tree(root_name, ancestors, descendants, direction) ==
    [name |-> root_name, type |-> "root"]
        @@ (IF direction \in {"up", "both"} /\ ancestors # <<>>
            THEN [parents |-> [i \in 1..Len(ancestors) |->
                                  [name |-> ancestors[i].class_name,
                                   depth |-> ancestors[i].depth]]]
            ELSE Nil)
        @@ (IF direction \in {"down", "both"} /\ descendants # <<>>
            THEN [children |-> [i \in 1..Len(descendants) |->
                                   [name |-> descendants[i].class_name,
                                    depth |-> descendants[i].depth]]]
            ELSE Nil)

\* ClassHierarchyQuery.execute -> [result, issued]
ClassHierarchyExecute(g, class_name, direction, max_depth, fault) ==
    LET context == [class_name |-> class_name, direction |-> direction,
                    max_depth |-> max_depth]
        want_up == direction \in {"up", "both"}
        want_down == direction \in {"down", "both"}
        ancestors == IF want_up THEN AncestorRows(g, class_name, max_depth) ELSE <<>>
        descendants == IF want_down THEN DescendantRows(g, class_name, max_depth)
                       ELSE <<>>
        run_up == Statement("execute_structural_query", "class_hierarchy(ancestors)",
                            [name |-> class_name])
        run_down == Statement("execute_structural_query",
                              "class_hierarchy(descendants)", [name |-> class_name])
        check == Statement("fetch_all", "check", [name |-> class_name])
        circular == Statement("fetch_all", "circular", [name |-> class_name])
        ran == (IF want_up THEN <<run_up>> ELSE <<>>)
               \o (IF want_down THEN <<run_down>> ELSE <<>>)
        circular_deps == IF fault = CycleQueryFault THEN <<>>
                         ELSE detect_circular_inheritance(g, class_name)
    IN  IF direction \notin Directions
        THEN [result |-> create_error_response(
                             "INVALID_PARAMETER", "Invalid direction parameter",
                             "Use direction=both",
                             [class_name |-> class_name, direction |-> direction]),
              issued |-> <<>>]
        ELSE IF max_depth < HierarchyMinDepth \/ max_depth > HierarchyMaxDepth
        THEN [result |-> create_error_response(
                             "INVALID_PARAMETER", "max_depth must be between 1 and 10",
                             "Use max_depth=5 for typical hierarchies",
                             [class_name |-> class_name, max_depth |-> max_depth]),
              issued |-> <<>>]
        ELSE IF fault \in FirstCallFaults
        THEN [result |-> handle_error(Raised(fault), context),
              issued |-> <<Head(ran)>>]
        ELSE IF /\ ancestors = <<>>
                /\ descendants = <<>>
                /\ ~HasNode(g, class_name, {"Class"})
        THEN [result |-> handle_node_not_found(class_name, "Class"),
              issued |-> Append(ran, check)]
        ELSE [result |->
                  [query |-> [text |-> "Class hierarchy for", name |-> class_name,
                              direction |-> direction],
                   hierarchy_tree |-> build_hierarchy_tree(class_name, ancestors,
                                                           descendants, direction),
                   ancestors |-> ancestors,
                   descendants |-> descendants,
                   circular_dependencies |-> circular_deps,
                   warnings |-> IF circular_deps # <<>>
                                THEN <<"Circular inheritance detected">> ELSE <<>>,
                   metadata |-> [row_count |-> Len(ancestors) + Len(descendants),
                                 total_count |-> Len(ancestors) + Len(descendants),
                                 truncated |-> FALSE,
                                 query_type |-> "structural",
                                 max_depth |-> max_depth]],
              issued |-> (IF ancestors = <<>> /\ descendants = <<>>
                          THEN Append(ran, check) ELSE ran) \o <<circular>>]

(***************************************************************************)
(* module_exports                                                          *)
(***************************************************************************)

\* ORDER BY labels(export)[0]: the labels in alphabetical order
LabelRank(label) ==
    CASE label = "Class" -> 1
      [] label = "Function" -> 2
      [] label = "Method" -> 3
      [] OTHER -> 4

\* the MATCH query of ModuleExportsQuery.execute; it has no LIMIT
ModuleExportsRows(g, module_name) ==
    LET exports == IF HasNode(g, module_name, {"Module"})
                   THEN {e.dst : e \in {e \in g.edges :
                                           /\ e.type = "DEFINES"
                                           /\ e.src = module_name
                                           /\ HasNode(g, e.dst,
                                                {"Function", "Class", "Method"})}}
                   ELSE {}
        keyed == {[key |-> <<LabelRank(g.nodes[x].label), x>>,
                   row |-> [export_name |-> x,
                            short_name |-> x,
                            private |-> g.nodes[x].private,
                            type |-> g.nodes[x].label]] : x \in exports}
    IN  RowsOf(OrderBy(keyed))

\* ModuleExportsQuery.execute -> [result, issued]
ModuleExportsExecute(g, module_name, include_private, fault) ==
    LET context == [module_name |-> module_name, include_private |-> include_private]
        run == Statement("execute_structural_query", "module_exports",
                         [name |-> module_name])
        check == Statement("fetch_all", "check", [name |-> module_name])
        results == ModuleExportsRows(g, module_name)
        kept == SelectSeq(results, LAMBDA row : include_private \/ ~row.private)
        formatted_results == [i \in 1..Len(kept) |->
                                 [export |-> kept[i].export_name,
                                  name |-> kept[i].short_name,
                                  type |-> kept[i].type]]
    IN  IF fault \in FirstCallFaults
        THEN [result |-> handle_error(Raised(fault), context), issued |-> <<run>>]
        ELSE IF results = <<>> /\ ~HasNode(g, module_name, {"Module"})
        THEN [result |-> handle_node_not_found(module_name, "Module"),
              issued |-> <<run, check>>]
        ELSE [result |-> format_results(
                             formatted_results,
                             [text |-> "Exports from module", name |-> module_name,
                              include_private |-> include_private]),
              issued |-> IF results = <<>> THEN <<run, check>> ELSE <<run>>]

(***************************************************************************)
(* Expert mode (ad-hoc Cypher)                                            *)
(***************************************************************************)

ExpertMinLimit == 1
ExpertMaxLimit == 1000

Forbidden(keyword, query) ==
    create_error_response(
        "FORBIDDEN_OPERATION",
        keyword,
        "Expert mode is read-only.",
        [query |-> Prefix(query, ProvidedInputChars)])

DestructiveKeywords ==
    <<KwDELETE, KwDETACH_DELETE, KwDROP, KwCREATE_INDEX, KwCREATE_CONSTRAINT>>

\* a guard that looks for the keywords as whole words of the query
validate_cypher_words(query) ==
    LET query_upper == Strip(Upper(query))
    IN  IF \E kw \in MutationKeywords : ContainsWord(query_upper, kw)
        THEN Forbidden("destructive", query)
        ELSE Nil

\* ExpertModeQuery._validate_cypher_query: an error response, or Nil when valid
validate_cypher_query(query) ==
    LET query_upper == Strip(Upper(query))
    IN  IF /\ Contains(query_upper, KwCREATE)
           /\ ~Contains(query_upper, KwCREATE_INDEX)
           /\ ~Contains(query_upper, KwCREATE_CONSTRAINT)
        THEN Forbidden("CREATE", query)
        ELSE IF \E i \in 1..Len(DestructiveKeywords) :
                    Contains(query_upper, DestructiveKeywords[i])
        THEN Forbidden("destructive", query)
        ELSE IF Contains(query_upper, KwSpacedSET)
        THEN Forbidden("SET", query)
        ELSE IF Contains(query_upper, KwMERGE)
        THEN Forbidden("MERGE", query)
        ELSE Nil

\* ExpertModeQuery.execute, the two range and emptiness checks: an error
\* response, or Nil
ExpertModeCheckArguments(query, limit) ==
    IF limit < ExpertMinLimit \/ limit > ExpertMaxLimit
    THEN create_error_response(
             "INVALID_PARAMETER", "limit must be between 1 and 1000",
             "Use smaller limit values",
             [query |-> Prefix(query, ProvidedInputChars), limit |-> limit])
    ELSE IF query = <<>> \/ Strip(query) = <<>>
    THEN create_error_response(
             "INVALID_QUERY", "Query cannot be empty",
             "Provide a valid Cypher query.", [query |-> query])
    ELSE Nil

\* ExpertModeQuery.execute, the try block: the statement goes to the store
ExpertModeRun(g, query, parameters, limit, store) ==
    LET params == IF parameters # Nil THEN parameters ELSE Nil
        stmts == <<Statement("execute_structural_query", "expert_mode_cypher", params)>>
    IN  IF store.kind = "raise"
        THEN [result |->
                  IF Contains(Lower(store.text), <<"t", "i", "m", "e", "o", "u", "t">>)
                     \/ Contains(Lower(store.text),
                                 <<"e", "x", "c", "e", "e", "d", "e", "d">>)
                  THEN handle_query_timeout(query)
                  ELSE handle_error(store, [query |-> Prefix(query, ProvidedInputChars)]),
              issued |-> stmts, graph |-> g]
        ELSE LET results == AdhocRows(store.n)
                 t == apply_truncation(results, limit, "expert")
                 base == [query |-> query,
                          rows |-> t.results,
                          columns |-> IF results # <<>> THEN <<"col">> ELSE <<>>,
                          row_count |-> Len(t.results),
                          truncated |-> t.was_truncated,
                          metadata |-> [row_count |-> Len(t.results),
                                        total_count |-> t.total_count,
                                        truncated |-> t.was_truncated,
                                        query_type |-> "expert_cypher",
                                        limit_applied |-> limit]]
             IN  [result |->
                      IF t.was_truncated
                      THEN base @@ [truncation_message |->
                               create_truncation_message(Len(t.results), t.total_count)]
                      ELSE base,
                  issued |-> stmts,
                  graph |-> StoreAfter(g, query)]

\* a variant of execute that hands the statement to the store before it
\* looks at the guard's verdict
ExpertModeExecuteStoreFirst(g, query, parameters, limit, store) ==
    LET argument_error == ExpertModeCheckArguments(query, limit)
        ran == ExpertModeRun(g, query, parameters, limit, store)
        validation_error == validate_cypher_query(query)
    IN  IF argument_error # Nil
        THEN [result |-> argument_error, issued |-> <<>>, graph |-> g]
        ELSE IF validation_error # Nil
        THEN [result |-> validation_error, issued |-> ran.issued, graph |-> ran.graph]
        ELSE ran

\* ExpertModeQuery.execute -> [result, issued, graph]
ExpertModeExecute(g, query, parameters, limit, store) ==
    LET argument_error == ExpertModeCheckArguments(query, limit)
        validation_error == validate_cypher_query(query)
    IN  IF argument_error # Nil
        THEN [result |-> argument_error, issued |-> <<>>, graph |-> g]
        ELSE IF validation_error # Nil
        THEN [result |-> validation_error, issued |-> <<>>, graph |-> g]
        ELSE ExpertModeRun(g, query, parameters, limit, store)

(***************************************************************************)
(* Inputs of the ad-hoc tool                                               *)
(***************************************************************************)

MaxTokens == 2

\* "MATCH (n) ", " RETURN n", a newline, and the mutation keywords in several
\* letter cases and positions; n.created_at holds CREATE inside an identifier
Vocabulary ==
    { <<"M", "A", "T", "C", "H", " ", "(", "n", ")", " ">>,
      <<" ", "R", "E", "T", "U", "R", "N", " ", "n">>,
      <<"\n">>,
      <<"S", "E", "T">>,
      <<"s", "e", "t", " ", "n", ".", "x", "=", "1">>,
      <<"r", "e", "m", "o", "v", "e">>,
      <<"D", "e", "l", "e", "t", "e">>,
      <<"C", "R", "E", "A", "T", "E">>,
      <<" ", "I", "N", "D", "E", "X">>,
      <<"D", "R", "O", "P">>,
      <<"m", "e", "r", "g", "e">>,
      <<"n", ".", "c", "r", "e", "a", "t", "e", "d", "_", "a", "t">> }

RECURSIVE QueriesOfLength(_)
QueriesOfLength(n) ==
    IF n = 0 THEN {<<>>}
    ELSE {t \o q : t \in Vocabulary, q \in QueriesOfLength(n - 1)}

\* every text of at most MaxTokens vocabulary tokens
Queries == UNION {QueriesOfLength(n) : n \in 0..MaxTokens}

\* the parameters argument: None, or a map whose value is a primitive, a list
\* or a nested object
Parameters ==
    {Nil, [p |-> [t |-> "string"]], [p |-> [t |-> "array"]], [p |-> [t |-> "object"]]}

IsPrimitive(value) == value.t \in {"string", "integer", "number", "boolean", "null"}

ExpertLimitArgDefault == 50

AdhocLimits == {ExpertMinLimit - 1, ExpertMinLimit, ExpertMaxLimit, ExpertMaxLimit + 1}

AdhocRequests ==
    [tool : {"query_cypher"}, query : Queries, parameters : Parameters, limit : AdhocLimits]
        \cup [tool : {"query_cypher"}, query : Queries, parameters : Parameters]

TextTimeout == <<"Q", "u", "e", "r", "y", " ", "T", "i", "m", "e", "o", "u", "t">>
TextSyntax == <<"s", "y", "n", "t", "a", "x">>
TextMemory == <<"M", "e", "m", "o", "r", "y", " ", "l", "i", "m", "i", "t", " ",
                "e", "x", "c", "e", "e", "d", "e", "d">>

AdhocOutcomes ==
    {Returns(n) : n \in {0, 1, 2, ExpertDefaultLimit, ExpertDefaultLimit + 1,
                         ExpertMaxLimit, ExpertMaxLimit + 1}}
        \cup {Raises(TextTimeout), Raises(TextSyntax), Raises(TextMemory)}


(***************************************************************************)
(* Handlers invoked directly, as the stress tests and the MCP server do   *)
(***************************************************************************)

\* expert_mode_cypher, the handler of create_expert_mode_tool
expert_mode_cypher ==
    /\ request.tool = "query_cypher"
    /\ result = Nil
    /\ \E store \in AdhocOutcomes :
          LET r == ExpertModeExecute(graph, request.query,
                                     request.parameters,
                                     Get(request, "limit", ExpertLimitArgDefault),
                                     store)
          IN  /\ result' = r.result
              /\ issued' = r.issued
              /\ graph' = r.graph
    /\ invoked' = <<"expert_mode_cypher">>
    /\ UNCHANGED <<request, response, server_initialized, mcp_tools_registry, phase,
                   store_reachable, tasks,
                   ingestor, ingestion>>

InitAdhoc ==
    /\ graph = EmptyGraph
    /\ request \in AdhocRequests
    /\ result = Nil
    /\ response = Nil
    /\ issued = <<>>
    /\ invoked = <<>>
    /\ server_initialized = FALSE
    /\ mcp_tools_registry = Nil
    /\ phase = "created"
    /\ store_reachable = TRUE
    /\ tasks = <<>>
    /\ ingestor = Nil
    /\ ingestion = Nil

SpecAdhoc == InitAdhoc /\ [][expert_mode_cypher]_vars


(***************************************************************************)
(* Graphs the tools are run against                                        *)
(***************************************************************************)

\* module 10 defines functions 11, 12, the private function 13 and class 20;
\* 11 and 12 call each other, method 14 calls 12; class 21 extends 20 and
\* implements 23, class 22 extends and implements 21; 10 imports the
\* external package 30 and the standard library module 31
SmallGraph ==
    [nodes |-> NodesOf({10, 31}, "Module") @@ NodesOf({30}, "ExternalPackage")
               @@ NodesOf({11, 12}, "Function") @@ PrivateNodesOf({13}, "Function")
               @@ NodesOf({14}, "Method") @@ NodesOf({20, 21, 22, 23}, "Class"),
     edges |-> {Edge(10, "DEFINES", 11), Edge(10, "DEFINES", 12),
                Edge(10, "DEFINES", 13), Edge(10, "DEFINES", 20),
                Edge(11, "CALLS", 12), Edge(12, "CALLS", 11), Edge(14, "CALLS", 12),
                Edge(10, "IMPORTS", 30), Edge(10, "IMPORTS", 31),
                Edge(11, "IMPORTS", 31),
                Edge(21, "INHERITS", 20), Edge(22, "INHERITS", 21),
                Edge(21, "IMPLEMENTS", 23), Edge(22, "IMPLEMENTS", 21)},
     modified |-> FALSE]

\* classes 20 and 21 inherit from each other; function 11 calls itself
CyclicGraph ==
    [nodes |-> NodesOf({20, 21}, "Class") @@ NodesOf({10}, "Module")
               @@ NodesOf({11, 12}, "Function"),
     edges |-> {Edge(20, "INHERITS", 21), Edge(21, "INHERITS", 20),
                Edge(11, "CALLS", 11), Edge(11, "CALLS", 12)},
     modified |-> FALSE]

Fan == 101

Leaves(base) == {base + i : i \in 1..Fan}

\* function 1 has Fan callers, Fan callees and Fan imported modules; class 2
\* has Fan implementers, Fan subclasses and Fan parents; module 3 defines Fan
\* functions, the first of them private
HubGraph ==
    [nodes |-> NodesOf({1}, "Function") @@ NodesOf({2}, "Class")
               @@ NodesOf({3}, "Module")
               @@ NodesOf(Leaves(1000) \cup Leaves(2000), "Function")
               @@ NodesOf(Leaves(3000), "Module")
               @@ NodesOf(Leaves(4000) \cup Leaves(5000) \cup Leaves(6000), "Class")
               @@ PrivateNodesOf({7001}, "Function")
               @@ NodesOf(Leaves(7000), "Function"),
     edges |-> {Edge(n, "CALLS", 1) : n \in Leaves(1000)}
               \cup {Edge(1, "CALLS", n) : n \in Leaves(2000)}
               \cup {Edge(1, "IMPORTS", n) : n \in Leaves(3000)}
               \cup {Edge(n, "IMPLEMENTS", 2) : n \in Leaves(4000)}
               \cup {Edge(n, "INHERITS", 2) : n \in Leaves(5000)}
               \cup {Edge(2, "INHERITS", n) : n \in Leaves(6000)}
               \cup {Edge(3, "DEFINES", n) : n \in Leaves(7000)},
     modified |-> FALSE]

\* two projects in one store.  Project 40 contains module 41, functions
\* 42, 43, 44 and classes 45, 46, 47: 42 calls 43 and 44, 43 calls 44; 46
\* implements 45, 47 implements 46 and extends 45.  Project 50 contains
\* module 51 and functions 52, 53: 52 calls 53.  No relationship crosses
\* projects.
TwoProjectGraph ==
    [nodes |-> NodesOf({40, 50}, "Project") @@ NodesOf({41, 51}, "Module")
               @@ NodesOf({42, 43, 44, 52, 53}, "Function")
               @@ NodesOf({45, 46, 47}, "Class"),
     edges |-> {Edge(40, "CONTAINS", n) : n \in {41, 42, 43, 44, 45, 46, 47}}
               \cup {Edge(50, "CONTAINS", n) : n \in {51, 52, 53}}
               \cup {Edge(41, "DEFINES", n) : n \in {42, 43, 44, 45, 46, 47}}
               \cup {Edge(51, "DEFINES", n) : n \in {52, 53}}
               \cup {Edge(42, "CALLS", 43), Edge(42, "CALLS", 44),
                     Edge(43, "CALLS", 44), Edge(52, "CALLS", 53)}
               \cup {Edge(46, "IMPLEMENTS", 45), Edge(47, "IMPLEMENTS", 46),
                     Edge(47, "INHERITS", 45)},
     modified |-> FALSE]

Graphs == {SmallGraph, CyclicGraph, HubGraph, TwoProjectGraph}

(***************************************************************************)
(* Arguments the handlers are called with                                  *)
(***************************************************************************)

CallersDefaultDepth == 1
CallGraphDefaultDepth == 3
CallGraphDefaultNodes == 50
HierarchyDefaultDepth == 10

\* 0 is the empty string, 99 names nothing in any graph
FunctionNames == {0, 1, 11, 12, 20, 42, 44, 53, 99}
TargetNames == {0, 1, 10, 11, 99}
ClassNames == {0, 2, 20, 21, 22, 23, 45, 99}
ModuleNames == {0, 3, 10, 99}

CallersRequests ==
    [tool : {"query_callers"}, function_name : FunctionNames,
     max_depth : {CallersMinDepth - 1, CallersMinDepth, 2, CallersMaxDepth,
                  CallersMaxDepth + 1},
     include_paths : BOOLEAN]
        \cup [tool : {"query_callers"}, function_name : FunctionNames]

DependenciesRequests ==
    [tool : {"query_dependencies"}, target : TargetNames,
     dependency_type : DependencyTypes \cup {"none"},
     include_transitive : BOOLEAN]
        \cup [tool : {"query_dependencies"}, target : TargetNames]

ImplementationsRequests ==
    [tool : {"query_implementations"}, interface_name : ClassNames,
     include_indirect : BOOLEAN]
        \cup [tool : {"query_implementations"}, interface_name : ClassNames]

CallGraphRequests ==
    [tool : {"query_call_graph"}, entry_point : FunctionNames,
     max_depth : {CallGraphMinDepth - 1, CallGraphMinDepth, CallGraphMaxDepth,
                  CallGraphMaxDepth + 1},
     max_nodes : {CallGraphMinNodes - 1, CallGraphMinNodes, 2, CallGraphMaxNodes,
                  CallGraphMaxNodes + 1}]
        \cup [tool : {"query_call_graph"}, entry_point : FunctionNames]

HierarchyRequests ==
    [tool : {"query_hierarchy"}, class_name : ClassNames,
     direction : Directions \cup {"sideways"},
     max_depth : {HierarchyMinDepth - 1, HierarchyMinDepth, HierarchyMaxDepth,
                  HierarchyMaxDepth + 1}]
        \cup [tool : {"query_hierarchy"}, class_name : ClassNames]

ModuleExportsRequests ==
    [tool : {"query_module_exports"}, module_name : ModuleNames,
     include_private : BOOLEAN]
        \cup [tool : {"query_module_exports"}, module_name : ModuleNames]

\* "", "MATCH (n)  RETURN n" and "MATCH (n) Delete"
SampleQueries ==
    {<<>>,
     <<"M", "A", "T", "C", "H", " ", "(", "n", ")", " ",
       " ", "R", "E", "T", "U", "R", "N", " ", "n">>,
     <<"M", "A", "T", "C", "H", " ", "(", "n", ")", " ", "D", "e", "l", "e", "t", "e">>}

AdhocSampleRequests ==
    [tool : {"query_cypher"}, query : SampleQueries, parameters : {Nil},
     limit : AdhocLimits]
        \cup [tool : {"query_cypher"}, query : SampleQueries, parameters : {Nil}]

ToolRequests ==
    CallersRequests \cup DependenciesRequests \cup ImplementationsRequests
        \cup CallGraphRequests \cup HierarchyRequests \cup ModuleExportsRequests
        \cup AdhocSampleRequests

\* find_callers, the handler of create_find_callers_tool
find_callers ==
    /\ request.tool = "query_callers"
    /\ result = Nil
    /\ \E fault \in StoreFaults :
          LET r == FindCallersExecute(graph, request.function_name,
                                      Get(request, "max_depth", CallersDefaultDepth),
                                      Get(request, "include_paths", TRUE), fault)
          IN  result' = r.result /\ issued' = r.issued
    /\ invoked' = <<"find_callers">>
    /\ UNCHANGED <<graph, request, response, server_initialized, mcp_tools_registry,
                   phase, store_reachable, tasks,
                   ingestor, ingestion>>

\* dependency_analysis, the handler of create_dependency_analysis_tool
dependency_analysis ==
    /\ request.tool = "query_dependencies"
    /\ result = Nil
    /\ \E fault \in StoreFaults :
          LET r == DependencyAnalysisExecute(
                       graph, request.target,
                       Get(request, "dependency_type", "all"),
                       Get(request, "include_transitive", FALSE), fault)
          IN  result' = r.result /\ issued' = r.issued
    /\ invoked' = <<"dependency_analysis">>
    /\ UNCHANGED <<graph, request, response, server_initialized, mcp_tools_registry,
                   phase, store_reachable, tasks,
                   ingestor, ingestion>>

\* interface_implementations, the handler of create_interface_implementations_tool
interface_implementations ==
    /\ request.tool = "query_implementations"
    /\ result = Nil
    /\ \E fault \in StoreFaults :
          LET r == InterfaceImplementationsExecute(
                       graph, request.interface_name,
                       Get(request, "include_indirect", FALSE), fault)
          IN  result' = r.result /\ issued' = r.issued
    /\ invoked' = <<"interface_implementations">>
    /\ UNCHANGED <<graph, request, response, server_initialized, mcp_tools_registry,
                   phase, store_reachable, tasks,
                   ingestor, ingestion>>

\* call_graph_generator, the handler of create_call_graph_tool
call_graph_generator ==
    /\ request.tool = "query_call_graph"
    /\ result = Nil
    /\ \E fault \in StoreFaults :
          LET r == CallGraphGeneratorExecute(
                       graph, request.entry_point,
                       Get(request, "max_depth", CallGraphDefaultDepth),
                       Get(request, "max_nodes", CallGraphDefaultNodes), fault)
          IN  result' = r.result /\ issued' = r.issued
    /\ invoked' = <<"call_graph_generator">>
    /\ UNCHANGED <<graph, request, response, server_initialized, mcp_tools_registry,
                   phase, store_reachable, tasks,
                   ingestor, ingestion>>

\* class_hierarchy, the handler of create_class_hierarchy_tool
class_hierarchy ==
    /\ request.tool = "query_hierarchy"
    /\ result = Nil
    /\ \E fault \in StoreFaults :
          LET r == ClassHierarchyExecute(
                       graph, request.class_name,
                       Get(request, "direction", "both"),
                       Get(request, "max_depth", HierarchyDefaultDepth), fault)
          IN  result' = r.result /\ issued' = r.issued
    /\ invoked' = <<"class_hierarchy">>
    /\ UNCHANGED <<graph, request, response, server_initialized, mcp_tools_registry,
                   phase, store_reachable, tasks,
                   ingestor, ingestion>>

\* module_exports, the handler of create_module_exports_tool
module_exports ==
    /\ request.tool = "query_module_exports"
    /\ result = Nil
    /\ \E fault \in StoreFaults :
          LET r == ModuleExportsExecute(graph, request.module_name,
                                        Get(request, "include_private", FALSE), fault)
          IN  result' = r.result /\ issued' = r.issued
    /\ invoked' = <<"module_exports">>
    /\ UNCHANGED <<graph, request, response, server_initialized, mcp_tools_registry,
                   phase, store_reachable, tasks,
                   ingestor, ingestion>>

InitTools ==
    /\ graph \in Graphs
    /\ request \in ToolRequests
    /\ result = Nil
    /\ response = Nil
    /\ issued = <<>>
    /\ invoked = <<>>
    /\ server_initialized = FALSE
    /\ mcp_tools_registry = Nil
    /\ phase = "created"
    /\ store_reachable = TRUE
    /\ tasks = <<>>
    /\ ingestor = Nil
    /\ ingestion = Nil

NextTools ==
    \/ find_callers
    \/ dependency_analysis
    \/ interface_implementations
    \/ call_graph_generator
    \/ class_hierarchy
    \/ module_exports
    \/ expert_mode_cypher

SpecTools == InitTools /\ [][NextTools]_vars

(***************************************************************************)
(* The HTTP transport: tool registry, argument validation, envelopes      *)
(***************************************************************************)

\* JSON values of a request's arguments
JsonString(v) == [t |-> "string", v |-> v]
JsonInteger(v) == [t |-> "integer", v |-> v]
JsonBoolean(v) == [t |-> "boolean", v |-> v]
JsonObject(v) == [t |-> "object", v |-> v]

\* input_schema of create_find_callers_tool
FindCallersSchema ==
    [required |-> {"function_name"},
     properties |-> [function_name |-> [type |-> "string"],
                     max_depth |-> [type |-> "integer", minimum |-> CallersMinDepth,
                                    maximum |-> CallersMaxDepth],
                     include_paths |-> [type |-> "boolean"]]]

\* input_schema of create_dependency_analysis_tool
DependencyAnalysisSchema ==
    [required |-> {"target"},
     properties |-> [target |-> [type |-> "string"],
                     dependency_type |-> [type |-> "string", enum |-> DependencyTypes],
                     include_transitive |-> [type |-> "boolean"]]]

\* input_schema of create_interface_implementations_tool
InterfaceImplementationsSchema ==
    [required |-> {"interface_name"},
     properties |-> [interface_name |-> [type |-> "string"],
                     include_indirect |-> [type |-> "boolean"]]]

\* input_schema of create_expert_mode_tool
ExpertModeSchema ==
    [required |-> {"query"},
     properties |-> [query |-> [type |-> "string"],
                     parameters |-> [type |-> "object"],
                     limit |-> [type |-> "integer", minimum |-> ExpertMinLimit,
                                maximum |-> ExpertMaxLimit]]]

\* input_schema of create_call_graph_tool
CallGraphSchema ==
    [required |-> {"entry_point"},
     properties |-> [entry_point |-> [type |-> "string"],
                     max_depth |-> [type |-> "integer", minimum |-> CallGraphMinDepth,
                                    maximum |-> CallGraphMaxDepth],
                     max_nodes |-> [type |-> "integer", minimum |-> CallGraphMinNodes,
                                    maximum |-> CallGraphMaxNodes]]]

\* input_schema of create_class_hierarchy_tool
ClassHierarchySchema ==
    [required |-> {"class_name"},
     properties |-> [class_name |-> [type |-> "string"],
                     direction |-> [type |-> "string", enum |-> Directions],
                     max_depth |-> [type |-> "integer", minimum |-> HierarchyMinDepth,
                                    maximum |-> HierarchyMaxDepth]]]

\* input_schema of create_module_exports_tool
ModuleExportsSchema ==
    [required |-> {"module_name"},
     properties |-> [module_name |-> [type |-> "string"],
                     include_private |-> [type |-> "boolean"]]]

\* the schema of a registered tool that is not a structural query
OtherToolSchema ==
    [required |-> {"text"}, properties |-> [text |-> [type |-> "string"]]]

ToolEntry(handler, schema) ==
    [handler |-> handler, returns_json |-> TRUE, inputSchema |-> schema]

\* create_mcp_tools_registry: the seven structural tools under the names
\* their definitions carry, and one tool of another kind
Registry ==
    [query_callers |-> ToolEntry("find_callers", FindCallersSchema),
     query_dependencies |-> ToolEntry("dependency_analysis", DependencyAnalysisSchema),
     query_implementations |->
         ToolEntry("interface_implementations", InterfaceImplementationsSchema),
     query_cypher |-> ToolEntry("expert_mode_cypher", ExpertModeSchema),
     query_call_graph |-> ToolEntry("call_graph_generator", CallGraphSchema),
     query_hierarchy |-> ToolEntry("class_hierarchy", ClassHierarchySchema),
     query_module_exports |-> ToolEntry("module_exports", ModuleExportsSchema),
     query_code_graph |-> ToolEntry("other", OtherToolSchema)]

\* Draft7Validator on one property
ValueValid(property, value) ==
    /\ value.t = property.type
    /\ Has(property, "minimum") => value.v >= property.minimum
    /\ Has(property, "maximum") => value.v <= property.maximum
    /\ Has(property, "enum") => value.v \in property.enum

\* Draft7Validator(inputSchema).validate(arguments)
SchemaValid(schema, arguments) ==
    /\ \A k \in schema.required : Has(arguments, k)
    /\ \A k \in DOMAIN arguments \cap DOMAIN schema.properties :
          ValueValid(schema.properties[k], arguments[k])

\* handler(**arguments): the keyword arguments as Python values
Keywords(arguments) == [k \in DOMAIN arguments |-> arguments[k].v]

\* ResponseEnvelope.validate_xor
validate_xor(fields) ==
    IF fields.success
    THEN Has(fields, "data") /\ ~Has(fields, "error") /\ ~Has(fields, "code")
    ELSE Has(fields, "error") /\ Has(fields, "code") /\ ~Has(fields, "data")

ValueError == [raised |-> "ValueError"]

\* a variant of the envelope constructor that skips the validator
ResponseEnvelopeUnvalidated(fields) == fields

\* ResponseEnvelope(...): the fields that are not None, or the validator's
\* ValueError
ResponseEnvelope(fields) ==
    IF validate_xor(fields) THEN fields ELSE ValueError

\* JSONResponse(status_code, content=envelope.model_dump(exclude_none=True))
JSONResponse(status_code, envelope) ==
    [status_code |-> status_code, content |-> envelope]

FailureResponse(status_code, error, code) ==
    JSONResponse(status_code,
                 ResponseEnvelope([success |-> FALSE, error |-> error, code |-> code]))

\* what the awaited handler does: a structural handler returns its dict or
\* raises TypeError on a keyword it does not take; the other tool returns a
\* dict, text, the text "null", raises, or outlives the timeout
HandlerOutcomes == {"dict", "text", "null", "raise", "timeout"}

\* the handler of a structural tool run on its keyword arguments
RunHandler(g, handler, kw, fault, store) ==
    CASE handler = "find_callers" ->
             FindCallersExecute(g, kw.function_name,
                                Get(kw, "max_depth", CallersDefaultDepth),
                                Get(kw, "include_paths", TRUE), fault)
                 @@ [graph |-> g]
      [] handler = "dependency_analysis" ->
             DependencyAnalysisExecute(g, kw.target, Get(kw, "dependency_type", "all"),
                                       Get(kw, "include_transitive", FALSE), fault)
                 @@ [graph |-> g]
      [] handler = "interface_implementations" ->
             InterfaceImplementationsExecute(g, kw.interface_name,
                                             Get(kw, "include_indirect", FALSE), fault)
                 @@ [graph |-> g]
      [] handler = "call_graph_generator" ->
             CallGraphGeneratorExecute(g, kw.entry_point,
                                       Get(kw, "max_depth", CallGraphDefaultDepth),
                                       Get(kw, "max_nodes", CallGraphDefaultNodes),
                                       fault)
                 @@ [graph |-> g]
      [] handler = "class_hierarchy" ->
             ClassHierarchyExecute(g, kw.class_name, Get(kw, "direction", "both"),
                                   Get(kw, "max_depth", HierarchyDefaultDepth), fault)
                 @@ [graph |-> g]
      [] handler = "module_exports" ->
             ModuleExportsExecute(g, kw.module_name,
                                  Get(kw, "include_private", FALSE), fault)
                 @@ [graph |-> g]
      [] handler = "expert_mode_cypher" ->
             ExpertModeExecute(g, kw.query, Get(kw, "parameters", Nil),
                               Get(kw, "limit", ExpertLimitArgDefault), store)

ExecutionError == FailureResponse(500, "Tool execution error", "EXECUTION_ERROR")

\* the success envelope around result_data; building it is inside the try
\* block, so the validator's ValueError ends in the EXECUTION_ERROR response
SuccessResponse(fields) ==
    IF ResponseEnvelope(fields @@ [success |-> TRUE]) = ValueError
    THEN ExecutionError
    ELSE JSONResponse(200, ResponseEnvelope(fields @@ [success |-> TRUE]))

\* a response sent before any handler ran
Unanswered(g, json_response) ==
    [response |-> json_response, result |-> Nil, issued |-> <<>>, invoked |-> <<>>,
     graph |-> g]

\* a response sent after the handler was called and gave no dict of a
\* structural tool
Dispatched(g, handler, json_response) ==
    [response |-> json_response, result |-> Nil, issued |-> <<>>,
     invoked |-> <<handler>>, graph |-> g]

\* the response around what a handler returned
HandlerResponse(handler, r) ==
    [response |-> SuccessResponse([data |-> r.result]),
     result |-> r.result, issued |-> r.issued, invoked |-> <<handler>>,
     graph |-> r.graph]

\* call_tool after the arguments passed validation: the handler is awaited
\* and its outcome wrapped -> [response, result, issued, invoked, graph]
ExecuteTool(g, entry, arguments, outcome, fault, store) ==
    IF entry.handler = "other"
    THEN Dispatched(g, entry.handler,
             CASE outcome = "dict" -> SuccessResponse([data |-> [answer |-> "rows"]])
               [] outcome = "text" -> SuccessResponse([data |-> [result |-> "text"]])
               [] outcome = "null" -> SuccessResponse(Nil)
               [] outcome = "raise" -> ExecutionError
               [] outcome = "timeout" ->
                      FailureResponse(408, "Tool execution exceeded timeout",
                                      "TIMEOUT"))
    ELSE IF ~(DOMAIN arguments \subseteq DOMAIN entry.inputSchema.properties)
    THEN Dispatched(g, entry.handler, ExecutionError)
    ELSE HandlerResponse(entry.handler,
                         RunHandler(g, entry.handler, Keywords(arguments), fault, store))

\* a variant of call_tool that calls the handler before it validates the
\* arguments and drops what the handler gave
CallToolDispatchFirst(initialized, registry, g, tool_request, outcome, fault, store) ==
    IF ~initialized
    THEN Unanswered(g, FailureResponse(503, "Service is initializing",
                                       "SERVICE_UNAVAILABLE"))
    ELSE IF registry = Nil
    THEN Unanswered(g, ExecutionError)
    ELSE IF tool_request.tool \notin DOMAIN registry
    THEN Unanswered(g, FailureResponse(404, "Tool not found", "TOOL_NOT_FOUND"))
    ELSE IF ~SchemaValid(registry[tool_request.tool].inputSchema,
                         tool_request.arguments)
    THEN Dispatched(g, registry[tool_request.tool].handler,
                    FailureResponse(400, "Invalid argument", "INVALID_ARGUMENTS"))
    ELSE ExecuteTool(g, registry[tool_request.tool], tool_request.arguments,
                     outcome, fault, store)

\* call_tool -> [response, result, issued, invoked, graph]
CallTool(initialized, registry, g, tool_request, outcome, fault, store) ==
    IF ~initialized
    THEN Unanswered(g, FailureResponse(503, "Service is initializing",
                                       "SERVICE_UNAVAILABLE"))
    ELSE IF registry = Nil
    THEN Unanswered(g, ExecutionError)
    ELSE IF tool_request.tool \notin DOMAIN registry
    THEN Unanswered(g, FailureResponse(404, "Tool not found", "TOOL_NOT_FOUND"))
    ELSE IF ~SchemaValid(registry[tool_request.tool].inputSchema,
                         tool_request.arguments)
    THEN Unanswered(g, FailureResponse(400, "Invalid argument", "INVALID_ARGUMENTS"))
    ELSE ExecuteTool(g, registry[tool_request.tool], tool_request.arguments,
                     outcome, fault, store)

\* requests posted to /call-tool
NameArguments(key, names) == {[k \in {key} |-> JsonString(n)] : n \in names}

CallersArguments ==
    {Nil}
        \cup NameArguments("function_name", {0, 12, 99})
        \cup {[function_name |-> JsonString(n), max_depth |-> d] :
                 n \in {0, 12, 99},
                 d \in {JsonInteger(CallersMinDepth - 1), JsonInteger(CallersMinDepth),
                        JsonInteger(2), JsonInteger(CallersMaxDepth + 1),
                        JsonString(1)}}
        \cup {[function_name |-> JsonString(12), verbose |-> JsonBoolean(TRUE)]}

HierarchyArguments ==
    NameArguments("class_name", {0, 21, 99})
        \cup {[class_name |-> JsonString(21), direction |-> JsonString(d),
               max_depth |-> JsonInteger(m)] :
                 d \in {"up", "sideways"},
                 m \in {HierarchyMinDepth - 1, HierarchyMaxDepth,
                        HierarchyMaxDepth + 1}}

CallGraphArguments ==
    NameArguments("entry_point", {0, 11, 99})
        \cup {[entry_point |-> JsonString(11), max_depth |-> JsonInteger(d),
               max_nodes |-> JsonInteger(m)] :
                 d \in {CallGraphMinDepth - 1, CallGraphMinDepth,
                        CallGraphMaxDepth + 1},
                 m \in {CallGraphMinNodes - 1, CallGraphMinNodes,
                        CallGraphMaxNodes + 1}}

CypherArguments ==
    {[query |-> JsonString(q)] : q \in SampleQueries}
        \cup {[query |-> JsonString(q), limit |-> JsonInteger(l)] :
                 q \in SampleQueries, l \in AdhocLimits}
        \cup {[query |-> JsonString(q),
               parameters |-> JsonObject([p |-> [t |-> "array"]])] :
                 q \in SampleQueries}

ToolRequestsPosted ==
    [tool : {"no_such_tool"}, arguments : {Nil}]
        \cup [tool : {"query_callers"}, arguments : CallersArguments]
        \cup [tool : {"query_hierarchy"}, arguments : HierarchyArguments]
        \cup [tool : {"query_call_graph"}, arguments : CallGraphArguments]
        \cup [tool : {"query_dependencies"},
              arguments : NameArguments("target", {0, 10, 99})]
        \cup [tool : {"query_implementations"},
              arguments : NameArguments("interface_name", {0, 20, 99})]
        \cup [tool : {"query_module_exports"},
              arguments : NameArguments("module_name", {0, 10, 99})]
        \cup [tool : {"query_cypher"}, arguments : CypherArguments]
        \cup [tool : {"query_code_graph"}, arguments : NameArguments("text", {1})]

\* what a store call of a handler can do: an unreachable store only raises
FaultsOf(reachable) == IF reachable THEN StoreFaults ELSE FirstCallFaults

AdhocOutcomesOf(reachable) ==
    IF reachable THEN {Returns(2), Raises(TextTimeout)}
    ELSE {Raises(TextTimeout), Raises(TextSyntax)}

\* lifespan, up to its yield: the registry is built on a connection to the
\* store; any exception leaves the server uninitialized, and one raised
\* after the registry was assigned leaves the registry in place
lifespan_startup ==
    /\ phase \in {"created", "stopped"}
    /\ phase' = "serving"
    /\ \/ /\ store_reachable
          /\ mcp_tools_registry' = Registry
          /\ server_initialized' = TRUE
       \/ /\ store_reachable
          /\ mcp_tools_registry' = Registry
          /\ server_initialized' = FALSE
       \/ /\ server_initialized' = FALSE
          /\ UNCHANGED mcp_tools_registry
    /\ UNCHANGED <<graph, request, result, response, issued, invoked, store_reachable,
                   tasks,
                   ingestor, ingestion>>

\* a variant of POST /call-tool that drops the registry when the handler
\* raised
call_tool_dropping_registry ==
    /\ phase = "serving"
    /\ response = Nil
    /\ \E outcome \in HandlerOutcomes, fault \in FaultsOf(store_reachable),
          store \in AdhocOutcomesOf(store_reachable) :
          \E r \in {CallTool(server_initialized, mcp_tools_registry, graph, request,
                            outcome, fault, store)} :
              /\ response' = r.response
              /\ result' = r.result
              /\ issued' = r.issued
              /\ invoked' = r.invoked
              /\ graph' = r.graph
              /\ mcp_tools_registry' = IF r.response.status_code = 500 THEN Nil
                                       ELSE mcp_tools_registry
    /\ UNCHANGED <<request, server_initialized, phase, store_reachable, tasks,
                   ingestor, ingestion>>

\* POST /call-tool
call_tool ==
    /\ phase = "serving"
    /\ response = Nil
    /\ \E outcome \in HandlerOutcomes, fault \in FaultsOf(store_reachable),
          store \in AdhocOutcomesOf(store_reachable) :
          \E r \in {CallTool(server_initialized, mcp_tools_registry, graph, request,
                            outcome, fault, store)} :
              /\ response' = r.response
              /\ result' = r.result
              /\ issued' = r.issued
              /\ invoked' = r.invoked
              /\ graph' = r.graph
    /\ UNCHANGED <<request, server_initialized, mcp_tools_registry, phase,
                   store_reachable, tasks,
                   ingestor, ingestion>>

\* the next request arrives once the last one was answered
next_request ==
    /\ phase = "serving"
    /\ response # Nil
    /\ request' \in ToolRequestsPosted
    /\ response' = Nil
    /\ result' = Nil
    /\ issued' = <<>>
    /\ invoked' = <<>>
    /\ UNCHANGED <<graph, server_initialized, mcp_tools_registry, phase,
                   store_reachable, tasks,
                   ingestor, ingestion>>

\* lifespan, after its yield
lifespan_shutdown ==
    /\ phase = "serving"
    /\ phase' = "stopped"
    /\ mcp_tools_registry' = Nil
    /\ UNCHANGED <<graph, request, result, response, issued, invoked,
                   server_initialized, store_reachable, tasks,
                   ingestor, ingestion>>

\* the store goes away or comes back, whatever the server does
store_lost ==
    /\ store_reachable
    /\ store_reachable' = FALSE
    /\ UNCHANGED <<graph, request, result, response, issued, invoked,
                   server_initialized, mcp_tools_registry, phase, tasks,
                   ingestor, ingestion>>

store_restored ==
    /\ ~store_reachable
    /\ store_reachable' = TRUE
    /\ UNCHANGED <<graph, request, result, response, issued, invoked,
                   server_initialized, mcp_tools_registry, phase, tasks,
                   ingestor, ingestion>>

Init ==
    /\ graph \in {SmallGraph, CyclicGraph}
    /\ request \in ToolRequestsPosted
    /\ result = Nil
    /\ response = Nil
    /\ issued = <<>>
    /\ invoked = <<>>
    /\ server_initialized = FALSE
    /\ mcp_tools_registry = Nil
    /\ phase = "created"
    /\ store_reachable \in BOOLEAN
    /\ tasks = <<>>
    /\ ingestor = Nil
    /\ ingestion = Nil

Next ==
    \/ lifespan_startup
    \/ call_tool
    \/ next_request
    \/ lifespan_shutdown
    \/ store_lost
    \/ store_restored

Spec == Init /\ [][Next]_vars

\* requests keep arriving and every request is answered
SpecLive == Spec /\ WF_vars(call_tool) /\ WF_vars(next_request)

(***************************************************************************)
(* Handlers gathered on one event loop (asyncio.gather over handler        *)
(* coroutines).  A handler is an async function without an await, so once  *)
(* its task is scheduled it runs to its return before any other task.      *)
(***************************************************************************)

NumTasks == 2

\* the invocations the concurrency tests gather
GatheredRequests ==
    {[tool |-> "query_callers", function_name |-> 11, max_depth |-> 1],
     [tool |-> "query_callers", function_name |-> 12, max_depth |-> 2],
     [tool |-> "query_hierarchy", class_name |-> 21, direction |-> "both"],
     [tool |-> "query_module_exports", module_name |-> 10, include_private |-> FALSE]}

\* what the handler of the invocation returns on its own
HandlerResult(g, task) ==
    RunHandler(g, Registry[task.request.tool].handler, task.request, task.fault,
               Returns(0))

\* a variant of the task step in which the tool object keeps the rows of
\* the invocation that ran first and hands them to the later ones
run_task_sharing_rows ==
    /\ \E i \in DOMAIN tasks :
          /\ tasks[i].result = Nil
          /\ LET r == HandlerResult(graph, tasks[i])
             IN  /\ tasks' = [tasks EXCEPT ![i].result =
                                 IF result = Nil THEN r.result ELSE result]
                 /\ result' = IF result = Nil THEN r.result ELSE result
                 /\ issued' = issued \o r.issued
                 /\ invoked' = Append(invoked, i)
    /\ UNCHANGED <<graph, request, response, server_initialized, mcp_tools_registry,
                   phase, store_reachable,
                   ingestor, ingestion>>

\* the event loop runs one of the tasks that have not run: the whole handler
run_task ==
    /\ \E i \in DOMAIN tasks :
          /\ tasks[i].result = Nil
          /\ LET r == HandlerResult(graph, tasks[i])
             IN  /\ tasks' = [tasks EXCEPT ![i].result = r.result]
                 /\ issued' = issued \o r.issued
                 /\ invoked' = Append(invoked, i)
    /\ UNCHANGED <<graph, request, result, response, server_initialized,
                   mcp_tools_registry, phase, store_reachable,
                   ingestor, ingestion>>

InitGather ==
    /\ graph \in {SmallGraph, CyclicGraph}
    /\ tasks \in [1..NumTasks ->
                     [request : GatheredRequests, fault : StoreFaults, result : {Nil}]]
    /\ request = Nil
    /\ result = Nil
    /\ response = Nil
    /\ issued = <<>>
    /\ invoked = <<>>
    /\ server_initialized = FALSE
    /\ mcp_tools_registry = Nil
    /\ phase = "created"
    /\ store_reachable = TRUE
    /\ ingestor = Nil
    /\ ingestion = Nil

SpecGather == InitGather /\ [][run_task]_vars

(***************************************************************************)
(* One handler invoked against a store whose behaviour is known: the       *)
(* invocation carries what the store's calls do (fault for the prebuilt   *)
(* tools, store for the ad-hoc tool) next to the handler's answer.         *)
(***************************************************************************)

FaultedInvocations ==
    [request : ToolRequests \ AdhocSampleRequests, fault : StoreFaults,
     store : {Returns(0)}, result : {Nil}]
        \cup [request : AdhocSampleRequests, fault : {"none"},
              store : AdhocOutcomes, result : {Nil}]

\* the handler of the invocation runs to its return
run_handler ==
    /\ tasks[1].result = Nil
    /\ \E r \in {RunHandler(graph, Registry[tasks[1].request.tool].handler,
                            tasks[1].request, tasks[1].fault, tasks[1].store)} :
          /\ tasks' = [tasks EXCEPT ![1].result = r.result]
          /\ issued' = r.issued
          /\ graph' = r.graph
    /\ invoked' = <<Registry[tasks[1].request.tool].handler>>
    /\ UNCHANGED <<request, result, response, server_initialized,
                   mcp_tools_registry, phase, store_reachable,
                   ingestor, ingestion>>

InitFaults ==
    /\ graph \in Graphs
    /\ tasks \in [{1} -> FaultedInvocations]
    /\ request = Nil
    /\ result = Nil
    /\ response = Nil
    /\ issued = <<>>
    /\ invoked = <<>>
    /\ server_initialized = FALSE
    /\ mcp_tools_registry = Nil
    /\ phase = "created"
    /\ store_reachable = TRUE
    /\ ingestor = Nil
    /\ ingestion = Nil

SpecFaults == InitFaults /\ [][run_handler]_vars

(***************************************************************************)
(* The batched graph writer (MemgraphIngestor) and an ingestion run that   *)
(* drives it.  The contract names the writer's methods; what they do is    *)
(* taken from the specification's graph-writer section.  The store keeps   *)
(* one node per key (the unique constraint) and counts the relationships   *)
(* it holds per (from, type, to).                                          *)
(***************************************************************************)

MaxStream == 4

NodeRecord(label, key, properties) ==
    [kind |-> "node", label |-> label, key |-> key, properties |-> properties]

RelationshipRecord(from, type, to) ==
    [kind |-> "relationship", from |-> from, type |-> type, to |-> to]

\* what the ingester emits for a repository: module 10 defines function 11,
\* which calls itself; function 11 is seen with two property sets
Emissions ==
    {NodeRecord("Module", 10, "a"), NodeRecord("Function", 11, "a"),
     NodeRecord("Function", 11, "b"),
     RelationshipRecord(10, "DEFINES", 11), RelationshipRecord(11, "CALLS", 11)}

RECURSIVE StreamsOfLength(_)
StreamsOfLength(n) ==
    IF n = 0 THEN {<<>>}
    ELSE {Append(s, e) : s \in StreamsOfLength(n - 1), e \in Emissions}

\* the node/edge streams of the repositories ingested
Repositories == UNION {StreamsOfLength(n) : n \in 0..MaxStream}

BatchSizes == {1, 2, 3}

EmptyStore == [nodes |-> [k \in {} |-> Nil], relationships |-> [r \in {} |-> 0]]

\* MemgraphIngestor(host, port, batch_size)
NewIngestor(batch_size, store) ==
    [batch_size |-> batch_size, node_buffer |-> <<>>,
     relationship_buffer |-> <<>>, store |-> store, failed |-> FALSE]

\* UNWIND batch MERGE (n:Label {key}) SET n += properties, in insertion order
RECURSIVE MergeNodes(_, _)
MergeNodes(nodes, batch) ==
    IF batch = <<>> THEN nodes
    ELSE LET n == Head(batch)
             row == [label |-> n.label, properties |-> n.properties]
         IN  MergeNodes((n.key :> row) @@ nodes, Tail(batch))

\* UNWIND batch MATCH (a), (b) CREATE (a)-[:TYPE]->(b): one more relationship
\* for every row
RECURSIVE CreateRelationships(_, _)
CreateRelationships(relationships, batch) ==
    IF batch = <<>> THEN relationships
    ELSE LET r == [from |-> Head(batch).from, type |-> Head(batch).type,
                   to |-> Head(batch).to]
         IN  CreateRelationships(
                 IF r \in DOMAIN relationships
                 THEN [relationships EXCEPT ![r] = @ + 1]
                 ELSE (r :> 1) @@ relationships,
                 Tail(batch))

\* UNWIND batch MATCH (a), (b) MERGE (a)-[:TYPE]->(b), in insertion order
RECURSIVE MergeRelationships(_, _)
MergeRelationships(relationships, batch) ==
    IF batch = <<>> THEN relationships
    ELSE LET r == [from |-> Head(batch).from, type |-> Head(batch).type,
                   to |-> Head(batch).to]
         IN  MergeRelationships(
                 IF r \in DOMAIN relationships THEN relationships
                 ELSE (r :> 1) @@ relationships,
                 Tail(batch))

\* flush_nodes: the buffered nodes are written and the buffer cleared
FlushNodes(w) ==
    [w EXCEPT !.store.nodes = MergeNodes(w.store.nodes, w.node_buffer),
              !.node_buffer = <<>>]

\* the endpoints of a buffered relationship exist in the store
EndpointsExist(nodes, batch) ==
    \A i \in DOMAIN batch : batch[i].from \in DOMAIN nodes /\ batch[i].to \in DOMAIN nodes

\* the relationship batch is written; a missing endpoint fails the batch,
\* which writes nothing, and the failure is fatal to the run
WriteRelationships(w) ==
    IF EndpointsExist(w.store.nodes, w.relationship_buffer)
    THEN [w EXCEPT !.store.relationships =
                       MergeRelationships(w.store.relationships, w.relationship_buffer),
                   !.relationship_buffer = <<>>]
    ELSE [w EXCEPT !.failed = TRUE]

\* the relationship batch is flushed while the nodes stay in their buffer
FlushRelationshipsOnly(w) ==
    IF w.relationship_buffer = <<>> THEN w ELSE WriteRelationships(w)

\* flush_relationships: on a flush of edges the writer first flushes any
\* pending nodes
FlushRelationships(w) ==
    IF w.relationship_buffer = <<>> THEN w ELSE WriteRelationships(FlushNodes(w))

\* flush_all: nodes first, then relationships
FlushAll(w) == FlushRelationships(FlushNodes(w))

\* the run can go on: the writer has not failed and the ingester is running
Running == ingestion # Nil /\ ingestion.run \in {1, 2} /\ ~ingestor.failed

\* the record the ingester emits next
Pending == ingestion.pos < Len(ingestion.repository)
NextRecord == ingestion.repository[ingestion.pos + 1]

\* ensure_node_batch: buffer the node; flush when the buffer reaches batch_size
ensure_node_batch ==
    /\ Running /\ Pending /\ NextRecord.kind = "node"
    /\ LET w == [ingestor EXCEPT !.node_buffer = Append(@, NextRecord)]
       IN  ingestor' = IF Len(w.node_buffer) >= w.batch_size THEN FlushNodes(w) ELSE w
    /\ ingestion' = [ingestion EXCEPT !.pos = @ + 1]
    /\ UNCHANGED <<graph, request, result, response, issued, invoked,
                   server_initialized, mcp_tools_registry, phase, store_reachable,
                   tasks>>

\* ensure_relationship_batch: buffer the relationship; when the buffer reaches
\* batch_size flush the nodes, then the relationships
ensure_relationship_batch ==
    /\ Running /\ Pending /\ NextRecord.kind = "relationship"
    /\ LET w == [ingestor EXCEPT !.relationship_buffer = Append(@, NextRecord)]
       IN  ingestor' = IF Len(w.relationship_buffer) >= w.batch_size
                       THEN FlushRelationships(w) ELSE w
    /\ ingestion' = [ingestion EXCEPT !.pos = @ + 1]
    /\ UNCHANGED <<graph, request, result, response, issued, invoked,
                   server_initialized, mcp_tools_registry, phase, store_reachable,
                   tasks>>

flush_nodes ==
    /\ Running
    /\ ingestor' = FlushNodes(ingestor)
    /\ UNCHANGED <<graph, request, result, response, issued, invoked,
                   server_initialized, mcp_tools_registry, phase, store_reachable,
                   tasks, ingestion>>

flush_relationships ==
    /\ Running
    /\ ingestor' = FlushRelationships(ingestor)
    /\ UNCHANGED <<graph, request, result, response, issued, invoked,
                   server_initialized, mcp_tools_registry, phase, store_reachable,
                   tasks, ingestion>>

flush_all ==
    /\ Running
    /\ ingestor' = FlushAll(ingestor)
    /\ UNCHANGED <<graph, request, result, response, issued, invoked,
                   server_initialized, mcp_tools_registry, phase, store_reachable,
                   tasks, ingestion>>

\* the run ends: close() flushes and releases the connection.  After the
\* first run the repository is ingested again by a new writer on the same
\* store; snapshot is the store as the first run left it.
close ==
    /\ Running /\ ~Pending
    /\ \E w \in {FlushAll(ingestor)} :
          IF w.failed
          THEN /\ ingestor' = w
               /\ UNCHANGED ingestion
          ELSE /\ ingestor' = NewIngestor(w.batch_size, w.store)
               /\ ingestion' =
                      IF ingestion.run = 1
                      THEN [ingestion EXCEPT !.run = 2, !.pos = 0, !.snapshot = w.store]
                      ELSE [ingestion EXCEPT !.run = 3]
    /\ UNCHANGED <<graph, request, result, response, issued, invoked,
                   server_initialized, mcp_tools_registry, phase, store_reachable,
                   tasks>>

InitWriter ==
    /\ ingestor \in {NewIngestor(b, EmptyStore) : b \in BatchSizes}
    /\ ingestion \in [repository : Repositories, run : {1}, pos : {0},
                      snapshot : {Nil}]
    /\ graph = EmptyGraph
    /\ tasks = <<>>
    /\ request = Nil
    /\ result = Nil
    /\ response = Nil
    /\ issued = <<>>
    /\ invoked = <<>>
    /\ server_initialized = FALSE
    /\ mcp_tools_registry = Nil
    /\ phase = "created"
    /\ store_reachable = TRUE

NextWriter ==
    \/ ensure_node_batch
    \/ ensure_relationship_batch
    \/ flush_nodes
    \/ flush_relationships
    \/ flush_all
    \/ close

SpecWriter == InitWriter /\ [][NextWriter]_vars

(***************************************************************************)
(* Writers bound to projects.  A MemgraphIngestor is constructed with a    *)
(* project_name; the nodes it writes are keyed by project and qualified    *)
(* name and hang from the project's root by CONTAINS.  Several writers     *)
(* share one store: ingestion.store is the store, and a writer's own       *)
(* store field is filled in for the length of one call.                    *)
(***************************************************************************)

MaxWrites == 4

ProjectNames == {"a", "b"}

\* the root of a project: its Project node, which has no qualified name
RootKey(project_name) == <<project_name, 0>>

\* a key that leaves the project out
UnscopedKey(project_name, qualified_name) ==
    IF qualified_name = 0 THEN <<project_name, 0>> ELSE <<"", qualified_name>>

\* the unique key of a node: {project, qualified_name}
ScopedKey(project_name, qualified_name) == <<project_name, qualified_name>>

\* what the ingester of either project emits: the project itself, module 10,
\* function 11, and that 10 defines 11; qualified names repeat across projects
ProjectEmissions ==
    {NodeRecord("Project", 0, "p"), NodeRecord("Module", 10, "p"),
     NodeRecord("Function", 11, "p"), RelationshipRecord(10, "DEFINES", 11)}

\* the record as the writer bound to project_name buffers it; a node
\* carries the project that wrote it
Scoped(project_name, record) ==
    IF record.kind = "node"
    THEN NodeRecord(record.label, ScopedKey(project_name, record.key), project_name)
    ELSE RelationshipRecord(ScopedKey(project_name, record.from), record.type,
                            ScopedKey(project_name, record.to))

\* the CONTAINS relationships from the project's root to the buffered nodes
ContainsOf(project_name, batch) ==
    [i \in 1..Len(batch) |->
        RelationshipRecord(RootKey(project_name), "CONTAINS", batch[i].key)]

\* flush_nodes of a writer bound to a project: the project's root is merged,
\* then the buffered nodes, each tied to the root by CONTAINS
ProjectFlushNodes(w) ==
    LET root == NodeRecord("Project", RootKey(w.project_name), w.project_name)
        others == SelectSeq(w.node_buffer, LAMBDA n : n.label # "Project")
    IN  IF w.node_buffer = <<>> THEN w
        ELSE [w EXCEPT !.store.nodes = MergeNodes(@, <<root>> \o w.node_buffer),
                       !.store.relationships =
                           MergeRelationships(@, ContainsOf(w.project_name, others)),
                       !.node_buffer = <<>>]

ProjectFlushAll(w) ==
    LET flushed == ProjectFlushNodes(w)
    IN  IF flushed.relationship_buffer = <<>> THEN flushed
        ELSE WriteRelationships(flushed)

\* MemgraphIngestor(host, port, batch_size, project_name)
NewProjectIngestor(batch_size, project_name) ==
    [batch_size |-> batch_size, node_buffer |-> <<>>,
     relationship_buffer |-> <<>>, store |-> EmptyStore, failed |-> FALSE,
     project_name |-> project_name]

\* the writer of a project with the store in view
Bound(project_name) == [ingestor[project_name] EXCEPT !.store = ingestion.store]

\* the writer after a call, and the store it left
Released(project_name, w, upserts) ==
    /\ ingestor' = [ingestor EXCEPT ![project_name] = [w EXCEPT !.store = EmptyStore]]
    /\ ingestion' = [ingestion EXCEPT !.store = w.store, !.written = @ + upserts]

Writing(project_name) ==
    /\ ingestion # Nil
    /\ ingestion.written < MaxWrites
    /\ ~ingestor[project_name].failed

project_ensure_node_batch ==
    /\ \E p \in ProjectNames, e \in {e \in ProjectEmissions : e.kind = "node"} :
          /\ Writing(p)
          /\ \E w \in {[Bound(p) EXCEPT !.node_buffer = Append(@, Scoped(p, e))]} :
                Released(p, IF Len(w.node_buffer) >= w.batch_size
                            THEN ProjectFlushNodes(w) ELSE w, 1)
    /\ UNCHANGED <<graph, request, result, response, issued, invoked,
                   server_initialized, mcp_tools_registry, phase, store_reachable,
                   tasks>>

project_ensure_relationship_batch ==
    /\ \E p \in ProjectNames,
          e \in {e \in ProjectEmissions : e.kind = "relationship"} :
          /\ Writing(p)
          /\ \E w \in {[Bound(p) EXCEPT
                           !.relationship_buffer = Append(@, Scoped(p, e))]} :
                Released(p, IF Len(w.relationship_buffer) >= w.batch_size
                            THEN ProjectFlushAll(w) ELSE w, 1)
    /\ UNCHANGED <<graph, request, result, response, issued, invoked,
                   server_initialized, mcp_tools_registry, phase, store_reachable,
                   tasks>>

project_flush_all ==
    /\ \E p \in ProjectNames :
          /\ ingestion # Nil
          /\ ~ingestor[p].failed
          /\ Released(p, ProjectFlushAll(Bound(p)), 0)
    /\ UNCHANGED <<graph, request, result, response, issued, invoked,
                   server_initialized, mcp_tools_registry, phase, store_reachable,
                   tasks>>

InitProjects ==
    /\ \E b \in BatchSizes :
          ingestor = [p \in ProjectNames |-> NewProjectIngestor(b, p)]
    /\ ingestion = [store |-> EmptyStore, written |-> 0]
    /\ graph = EmptyGraph
    /\ tasks = <<>>
    /\ request = Nil
    /\ result = Nil
    /\ response = Nil
    /\ issued = <<>>
    /\ invoked = <<>>
    /\ server_initialized = FALSE
    /\ mcp_tools_registry = Nil
    /\ phase = "created"
    /\ store_reachable = TRUE

NextProjects ==
    \/ project_ensure_node_batch
    \/ project_ensure_relationship_batch
    \/ project_flush_all

SpecProjects == InitProjects /\ [][NextProjects]_vars

(***************************************************************************)
(* Claims about the ad-hoc tool (checked under SpecAdhoc)                 *)
(***************************************************************************)

AdhocDone == request.tool = "query_cypher" /\ result # Nil

LimitInRange(r) ==
    LET limit == Get(r, "limit", ExpertLimitArgDefault)
    IN  limit >= ExpertMinLimit /\ limit <= ExpertMaxLimit

HasMutationWord(query) ==
    \E kw \in MutationKeywords : ContainsWord(Upper(query), kw)

ErrorCodeOf(r) == IF Has(r, "error_code") THEN r.error_code ELSE "no error"

RejectedAtValidation(r) ==
    ErrorCodeOf(r) \in {"INVALID_PARAMETER", "INVALID_QUERY", "FORBIDDEN_OPERATION"}

\* C1: every query holding CREATE, MERGE, DELETE, SET, REMOVE or DROP as a
\* whole word, in any letter case, called with a valid limit, is answered
\* with the error code FORBIDDEN_OPERATION.
C1_MutationWordForbidden ==
    (AdhocDone /\ LimitInRange(request) /\ HasMutationWord(request.query))
        => ErrorCodeOf(result) = "FORBIDDEN_OPERATION"

\* C2: when the ad-hoc tool rejects a request at validation (limit out of
\* range, empty or blank query, forbidden keyword) it has issued no
\* statement to the store for it and the graph is as it was.
C2_RejectionIssuesNothing ==
    [][ (request.tool = "query_cypher" /\ result = Nil /\ result' # Nil)
            => /\ (~LimitInRange(request) \/ Strip(request.query) = <<>>)
                     => RejectedAtValidation(result')
               /\ RejectedAtValidation(result')
                     => (issued' = <<>> /\ graph' = graph) ]_vars

\* spec scenario 4: "MATCH (n) Delete" is refused and nothing was issued
C2_Witness ==
    /\ AdhocDone
    /\ Contains(Upper(request.query), KwDELETE)
    /\ LimitInRange(request)
    /\ ErrorCodeOf(result) = "FORBIDDEN_OPERATION"
    /\ issued = <<>>

HasNonPrimitive(parameters) ==
    \E k \in DOMAIN parameters : ~IsPrimitive(parameters[k])

\* C10: a call whose parameters map holds a nested object or a list is
\* rejected at validation, before anything is executed against the store.
C10_NonPrimitiveRejected ==
    (AdhocDone /\ HasNonPrimitive(request.parameters))
        => (RejectedAtValidation(result) /\ issued = <<>>)

(***************************************************************************)
(* Claims about the handlers invoked directly (checked under SpecTools)   *)
(***************************************************************************)

PrebuiltTools ==
    {"query_callers", "query_dependencies", "query_implementations",
     "query_call_graph", "query_hierarchy", "query_module_exports"}

Answered == result # Nil

IsError(r) == Has(r, "error_code")

\* the codes the envelope contract allows
FixedCodes ==
    {"TOOL_NOT_FOUND", "INVALID_ARGUMENTS", "EXECUTION_ERROR", "INTERNAL_ERROR",
     "TIMEOUT", "RATE_LIMITED", "SERVICE_UNAVAILABLE", "NODE_NOT_FOUND",
     "QUERY_TIMEOUT", "FORBIDDEN_OPERATION"}

\* the number of rows a result shows
ShownRows(r) ==
    IF Has(r, "results") THEN Len(r.results)
    ELSE IF Has(r, "rows") THEN Len(r.rows)
    ELSE IF Has(r, "nodes") THEN Len(r.nodes)
    ELSE IF Has(r, "implementations") THEN Len(r.implementations)
    ELSE IF Has(r, "ancestors") THEN Len(r.ancestors) + Len(r.descendants)
    ELSE IF Has(r, "imports") THEN Len(r.imports) + Len(r.calls)
    ELSE 0

\* C5 (query tools): every failure a handler returns carries a code of the
\* fixed set.
C5_ToolCodesInFixedSet ==
    (Answered /\ IsError(result)) => result.error_code \in FixedCodes

\* C6: in every result with truncation metadata, row_count is the number of
\* rows shown, it is at most total_count, and truncated is true exactly when
\* row_count is strictly less than total_count; the call graph's own
\* truncated and total_nodes fields say the same.
C6_TruncationHonest ==
    (Answered /\ Has(result, "metadata"))
        => /\ result.metadata.row_count = ShownRows(result)
           /\ result.metadata.row_count <= result.metadata.total_count
           /\ result.metadata.truncated
                  <=> (result.metadata.row_count < result.metadata.total_count)
           /\ Has(result, "total_nodes")
                  => /\ result.truncated <=> (Len(result.nodes) < result.total_nodes)
                     /\ Len(result.nodes) <= result.total_nodes

\* module_exports over a module of more than 100 exports shows 100 of them
\* and says so
C6_Witness ==
    /\ Answered
    /\ request.tool = "query_module_exports"
    /\ Has(result, "metadata")
    /\ result.metadata.truncated
    /\ result.metadata.row_count = PrebuiltTruncateLimit
    /\ result.metadata.total_count > PrebuiltTruncateLimit

\* C7: no prebuilt tool response holds more than 100 result rows in total,
\* and an ad-hoc call without an explicit limit returns at most 50 rows.
C7_DefaultCaps ==
    (Answered /\ ~IsError(result))
        => /\ request.tool \in PrebuiltTools
                  => ShownRows(result) <= PrebuiltDefaultLimit
           /\ (request.tool = "query_cypher" /\ ~Has(request, "limit"))
                  => ShownRows(result) <= ExpertDefaultLimit

\* the request carries an integer argument outside the range the tool declares
OutOfRange(r) ==
    \/ /\ r.tool = "query_callers"
       /\ Has(r, "max_depth")
       /\ (r.max_depth < CallersMinDepth \/ r.max_depth > CallersMaxDepth)
    \/ /\ r.tool = "query_hierarchy"
       /\ Has(r, "max_depth")
       /\ (r.max_depth < HierarchyMinDepth \/ r.max_depth > HierarchyMaxDepth)
    \/ /\ r.tool = "query_call_graph"
       /\ Has(r, "max_depth")
       /\ \/ r.max_depth < CallGraphMinDepth
          \/ r.max_depth > CallGraphMaxDepth
          \/ r.max_nodes < CallGraphMinNodes
          \/ r.max_nodes > CallGraphMaxNodes
    \/ /\ r.tool = "query_cypher"
       /\ ~LimitInRange(r)

\* C8: a call with an integer argument outside its declared range returns an
\* error with code INVALID_ARGUMENTS.
C8_OutOfRangeInvalidArguments ==
    (Answered /\ OutOfRange(request))
        => ErrorCodeOf(result) = "INVALID_ARGUMENTS"

\* the qualified name a prebuilt request carries
QualifiedNameOf(r) ==
    CASE r.tool = "query_callers" -> r.function_name
      [] r.tool = "query_dependencies" -> r.target
      [] r.tool = "query_implementations" -> r.interface_name
      [] r.tool = "query_call_graph" -> r.entry_point
      [] r.tool = "query_hierarchy" -> r.class_name
      [] r.tool = "query_module_exports" -> r.module_name

\* C9: a prebuilt tool called with an empty qualified name returns an error
\* with code INVALID_ARGUMENTS.
C9_EmptyNameInvalidArguments ==
    (Answered /\ request.tool \in PrebuiltTools /\ QualifiedNameOf(request) = 0)
        => ErrorCodeOf(result) = "INVALID_ARGUMENTS"

(***************************************************************************)
(* Claims about the HTTP transport (checked under Spec)                    *)
(***************************************************************************)

Responded == response # Nil

\* the envelope that went out as the body of the response
Envelope == response.content

\* C3: every envelope the transport sends for a tool call satisfies the XOR
\* invariant: success=true iff data is present and error and code are both
\* absent; success=false iff error and code are both present and data absent.
C3_EnvelopeXor ==
    Responded =>
        /\ Has(Envelope, "success")
        /\ Envelope.success
              <=> (Has(Envelope, "data") /\ ~Has(Envelope, "error")
                                         /\ ~Has(Envelope, "code"))
        /\ ~Envelope.success
              <=> (Has(Envelope, "error") /\ Has(Envelope, "code")
                                          /\ ~Has(Envelope, "data"))

\* a handler whose text parsed to None was answered, and with a failure
\* envelope
C3_Witness ==
    /\ Responded
    /\ request.tool = "query_code_graph"
    /\ response.status_code = 500
    /\ ~Envelope.success
    /\ Envelope.code = "EXECUTION_ERROR"

\* the name a posted callers request asks about
PostedFunctionName == request.arguments.function_name.v

\* C4: a callers call for a qualified name that matches no Function/Method
\* node returns an envelope with success=false and code NODE_NOT_FOUND, with
\* data absent.
C4_UnknownNameEnvelope ==
    (/\ Responded
     /\ request.tool = "query_callers"
     /\ result # Nil
     /\ ErrorCodeOf(result) = "NODE_NOT_FOUND"
     /\ ~HasNode(graph, PostedFunctionName, FunctionOrMethod))
        => /\ ~Envelope.success
           /\ Has(Envelope, "code")
           /\ Envelope.code = "NODE_NOT_FOUND"
           /\ ~Has(Envelope, "data")

(***************************************************************************)
(* Claims about the traversals of the handlers (checked under SpecTools)  *)
(***************************************************************************)

\* the Function/Method nodes with a CALLS relationship to the node
DirectCallers(g, name) ==
    {e.src : e \in {e \in g.edges : /\ e.type = "CALLS"
                                    /\ e.dst = name
                                    /\ HasNode(g, e.src, FunctionOrMethod)}}

ListedCallers(r) == {r.results[i].caller : i \in 1..Len(r.results)}

CallersAtDepthOne ==
    /\ Answered
    /\ request.tool = "query_callers"
    /\ Get(request, "max_depth", CallersDefaultDepth) = 1
    /\ ~IsError(result)

\* C11: with max_depth=1, callers lists exactly the Function/Method nodes
\* with a direct CALLS edge to the target: every direct caller up to the
\* row cap, and no node that reaches the target only over two or more edges.
C11_DirectCallersOnly ==
    CallersAtDepthOne =>
        LET direct == DirectCallers(graph, request.function_name)
            listed == ListedCallers(result)
        IN  /\ listed \subseteq direct
            /\ Cardinality(direct) <= CallersQueryLimit => listed = direct
            /\ Cardinality(direct) > CallersQueryLimit
                  => Cardinality(listed) = CallersQueryLimit
            /\ Len(result.results) = Cardinality(listed)

\* function 11 is called by 12 directly and reached by 14 only through 12
C11_Witness ==
    /\ CallersAtDepthOne
    /\ graph = SmallGraph
    /\ request.function_name = 11
    /\ 14 \in {Last(p) : p \in PathsInto(graph, "CALLS", 11, 2)}
    /\ ListedCallers(result) = {12}

\* the classes a class inherits from directly
ParentsOf(g, class_name) ==
    {e.dst : e \in {e \in g.edges : /\ e.type = "INHERITS"
                                    /\ e.src = class_name
                                    /\ HasNode(g, e.src, {"Class"})
                                    /\ HasNode(g, e.dst, {"Class"})}}

HierarchyAnswered ==
    /\ Answered
    /\ request.tool = "query_hierarchy"
    /\ ~IsError(result)

\* C12: for every INHERITS edge child -> parent between Class nodes,
\* hierarchy(child, up) with a valid max_depth lists parent among the
\* ancestors at depth 1; with direction up the descendants are empty and
\* with direction down the ancestors are empty.
C12_ParentAtDepthOne ==
    HierarchyAnswered =>
        /\ Get(request, "direction", "both") = "up"
              => /\ \A parent \in ParentsOf(graph, request.class_name) :
                       \E i \in 1..Len(result.ancestors) :
                           /\ result.ancestors[i].class_name = parent
                           /\ result.ancestors[i].depth = 1
                 /\ result.descendants = <<>>
        /\ Get(request, "direction", "both") = "down"
              => result.ancestors = <<>>

MaxCycleLength == 3

\* the class lies on a cycle of INHERITS edges between classes
RECURSIVE InheritsWithin(_, _, _, _)
InheritsWithin(g, from, to, k) ==
    /\ k > 0
    /\ \E e \in g.edges :
          /\ e.type = "INHERITS"
          /\ e.src = from
          /\ \/ e.dst = to
             \/ InheritsWithin(g, e.dst, to, k - 1)

OnInheritanceCycle(g, class_name) ==
    /\ HasNode(g, class_name, {"Class"})
    /\ InheritsWithin(g, class_name, class_name, MaxCycleLength)

IsCycleOf(g, cycle, class_name) ==
    /\ Len(cycle) >= 2
    /\ cycle[1] = class_name
    /\ cycle[Len(cycle)] = class_name
    /\ \A i \in 1..(Len(cycle) - 1) :
          Edge(cycle[i], "INHERITS", cycle[i + 1]) \in g.edges

\* C13 (checked under SpecFaults): hierarchy called with valid arguments on
\* a class that lies on an INHERITS cycle returns; when the store's first
\* call fails it returns that failure's error, and when the store answers
\* it returns a non-error result whose warnings are not empty and whose
\* circular_dependencies is the cycle.
C13_CycleReported ==
    (/\ tasks # Nil
     /\ tasks[1].result # Nil
     /\ tasks[1].request.tool = "query_hierarchy"
     /\ Get(tasks[1].request, "direction", "both") \in Directions
     /\ Get(tasks[1].request, "max_depth", HierarchyDefaultDepth) \in
            HierarchyMinDepth..HierarchyMaxDepth
     /\ OnInheritanceCycle(graph, tasks[1].request.class_name)
     /\ tasks[1].fault # CycleQueryFault)
        => IF tasks[1].fault \in FirstCallFaults
           THEN ErrorCodeOf(tasks[1].result) \in {"UNKNOWN_ERROR", "QUERY_TIMEOUT"}
           ELSE /\ ~IsError(tasks[1].result)
                /\ tasks[1].result.warnings # <<>>
                /\ IsCycleOf(graph, tasks[1].result.circular_dependencies,
                             tasks[1].request.class_name)

\* A inherits B and B inherits A: hierarchy(A, up) answered with the cycle
C13_Witness ==
    /\ tasks # Nil
    /\ tasks[1].result # Nil
    /\ tasks[1].fault = "none"
    /\ graph = CyclicGraph
    /\ tasks[1].request.tool = "query_hierarchy"
    /\ tasks[1].request.class_name = 20
    /\ Get(tasks[1].request, "direction", "both") = "up"
    /\ ~IsError(tasks[1].result)
    /\ tasks[1].result.circular_dependencies = <<20, 21, 20>>
    /\ Len(tasks[1].result.ancestors) = 2

(***************************************************************************)
(* Claims about dispatch in the HTTP transport (checked under Spec)        *)
(***************************************************************************)

\* the request names a registered tool and its arguments fit the schema
RequestFitsRegistry ==
    /\ mcp_tools_registry # Nil
    /\ request.tool \in DOMAIN mcp_tools_registry
    /\ SchemaValid(mcp_tools_registry[request.tool].inputSchema, request.arguments)

CodeOf(json_response) ==
    IF Has(json_response.content, "code") THEN json_response.content.code
    ELSE "no code"

\* C14: call_tool invokes a handler only when the server is initialized, the
\* tool is in the registry and the arguments fit its schema, tested in that
\* order: an uninitialized server answers SERVICE_UNAVAILABLE whatever the
\* request, an unknown tool gets TOOL_NOT_FOUND and schema-invalid arguments
\* get INVALID_ARGUMENTS, each without a handler being invoked.
C14_DispatchAfterValidation ==
    [][ (response = Nil /\ response' # Nil) =>
          /\ invoked' # <<>> => (server_initialized /\ RequestFitsRegistry)
          /\ ~server_initialized
                => (CodeOf(response') = "SERVICE_UNAVAILABLE" /\ invoked' = <<>>)
          /\ (server_initialized /\ mcp_tools_registry # Nil
                /\ request.tool \notin DOMAIN mcp_tools_registry)
                => (CodeOf(response') = "TOOL_NOT_FOUND" /\ invoked' = <<>>)
          /\ (server_initialized /\ mcp_tools_registry # Nil
                /\ request.tool \in DOMAIN mcp_tools_registry
                /\ ~RequestFitsRegistry)
                => (CodeOf(response') = "INVALID_ARGUMENTS" /\ invoked' = <<>>)
      ]_vars

\* a registered tool was posted arguments outside its schema and answered
C14_Witness ==
    /\ Responded
    /\ server_initialized
    /\ request.tool = "query_callers"
    /\ ~RequestFitsRegistry
    /\ CodeOf(response) = "INVALID_ARGUMENTS"
    /\ invoked = <<>>

\* the request ran into a timeout: the handler reported that its query
\* timed out, or the transport gave up waiting for the handler
TimedOut ==
    /\ Responded
    /\ \/ ErrorCodeOf(result) = "QUERY_TIMEOUT"
       \/ response.status_code = 408

\* C15: when a query's execution exceeds its timeout, the caller receives a
\* failure envelope with code QUERY_TIMEOUT.
C15_TimeoutEnvelope ==
    TimedOut => (~Envelope.success /\ CodeOf(response) = "QUERY_TIMEOUT")

(***************************************************************************)
(* Claims about the server's state across requests (Spec, SpecLive)        *)
(***************************************************************************)

\* the server takes requests but did not initialize
Degraded == phase = "serving" /\ ~server_initialized

\* C16: after initialization failed every tool call is answered with
\* SERVICE_UNAVAILABLE and none is dispatched; once the store is reachable
\* again the server leaves this mode and tool calls are served (stated for
\* as long as the store stays reachable and the server keeps running).
C16_LeavesDegradedMode ==
    /\ [][ (Degraded /\ response = Nil /\ response' # Nil)
            => (CodeOf(response') = "SERVICE_UNAVAILABLE" /\ invoked' = <<>>) ]_vars
    /\ (Degraded /\ store_reachable)
          ~> (~store_reachable \/ phase # "serving" \/ invoked # <<>>)

\* C17: no tool call, whether it succeeds, fails validation, names an
\* unknown tool, times out or raises inside the handler, changes the
\* initialized flag or the tools registry; the next request meets the same
\* registry.
C17_CallsLeaveRegistry ==
    [][ ((response = Nil /\ response' # Nil)
            \/ (response # Nil /\ response' = Nil))
          => UNCHANGED <<server_initialized, mcp_tools_registry, tasks>> ]_vars

\* a handler raised, and the registry is the one built at startup
C17_Witness ==
    /\ Responded
    /\ invoked # <<>>
    /\ CodeOf(response) = "EXECUTION_ERROR"
    /\ server_initialized
    /\ mcp_tools_registry = Registry

(***************************************************************************)
(* Claims about gathered handlers (checked under SpecGather)               *)
(***************************************************************************)

BufferedKeys(w) == {w.node_buffer[i].key : i \in DOMAIN w.node_buffer}

\* a buffered relationship one of whose endpoints was never upserted
DanglingRelationship(w) ==
    \E i \in DOMAIN w.relationship_buffer :
        {w.relationship_buffer[i].from, w.relationship_buffer[i].to}
            \ (DOMAIN w.store.nodes \cup BufferedKeys(w)) # {}

\* C19: at every flush the buffered nodes are written before the buffered
\* edges: after any sequence of upserts and flushes every edge in the store
\* has both endpoint nodes in the store, and a flush of edges fails only
\* for an edge whose endpoint was never upserted, never because that
\* endpoint was still waiting in the node buffer.
C19_NodesBeforeEdges ==
    ingestor # Nil =>
        /\ \A r \in DOMAIN ingestor.store.relationships :
              r.from \in DOMAIN ingestor.store.nodes
                  /\ r.to \in DOMAIN ingestor.store.nodes
        /\ ingestor.failed => DanglingRelationship(ingestor)

\* before the run is closed, two relationships filled the buffer while
\* their endpoint was still waiting in the node buffer, and both the node
\* and the relationship are in the store
C19_Witness ==
    /\ ingestor # Nil
    /\ ingestor.batch_size = 2
    /\ ingestion.repository = <<NodeRecord("Function", 11, "a"),
                                RelationshipRecord(11, "CALLS", 11),
                                RelationshipRecord(11, "CALLS", 11)>>
    /\ ingestion.run = 1
    /\ ingestion.pos = 3
    /\ ingestor.node_buffer = <<>>
    /\ ingestor.relationship_buffer = <<>>
    /\ DOMAIN ingestor.store.relationships = {[from |-> 11, type |-> "CALLS", to |-> 11]}
    /\ ~ingestor.failed


\* the repository has been ingested twice, each run closed without failure
IngestedTwice == ingestion # Nil /\ ingestion.run = 3

\* C20: ingestion is idempotent: after the same repository is ingested a
\* second time the store holds exactly the nodes (with the same labels and
\* properties) and exactly the relationships it held after the first
\* ingestion, each relationship once, so the counts per label and per
\* relationship type are equal; the second run does not fail.
C20_ReingestIdentical ==
    /\ IngestedTwice =>
          /\ ingestor.store = ingestion.snapshot
          /\ \A r \in DOMAIN ingestor.store.relationships :
                ingestor.store.relationships[r] = 1
    /\ (ingestion # Nil /\ ingestion.run = 2) => ~ingestor.failed

\* a module, a function and two relationships, one emitted twice, were
\* ingested twice
C20_Witness ==
    /\ IngestedTwice
    /\ ingestion.repository = <<NodeRecord("Module", 10, "a"),
                                NodeRecord("Function", 11, "b"),
                                RelationshipRecord(10, "DEFINES", 11),
                                RelationshipRecord(10, "DEFINES", 11)>>
    /\ DOMAIN ingestor.store.nodes = {10, 11}
    /\ ingestor.store.nodes[11].properties = "b"
    /\ DOMAIN ingestor.store.relationships =
           {[from |-> 10, type |-> "DEFINES", to |-> 11]}


(***************************************************************************)
(* Claims about project isolation (checked under SpecProjects)             *)
(***************************************************************************)

ContainmentTypes == {"CONTAINS", "DEFINES", "DEFINES_METHOD"}

RECURSIVE ReachableVia(_, _, _)
\* the nodes reached from the seen ones over relationships of the types
ReachableVia(relationships, types, seen) ==
    LET next == seen \cup {r.to : r \in {r \in DOMAIN relationships :
                                            r.type \in types /\ r.from \in seen}}
    IN  IF next = seen THEN seen ELSE ReachableVia(relationships, types, next)

\* the Project nodes from which a node is reached by containment
ProjectsReaching(store, n) ==
    {r \in DOMAIN store.nodes :
        /\ store.nodes[r].label = "Project"
        /\ n \in ReachableVia(store.relationships, ContainmentTypes, {r}) \ {r}}

\* C21: after any sequence of writes by ingestors bound to distinct project
\* names, every non-Project node of the store is reached over CONTAINS /
\* DEFINES / DEFINES_METHOD from exactly one Project node: the project of
\* the ingestor that wrote it.
C21_ProjectIsolation ==
    (ingestion # Nil /\ ingestor # Nil) =>
        \A n \in DOMAIN ingestion.store.nodes :
            ingestion.store.nodes[n].label # "Project"
                => ProjectsReaching(ingestion.store, n)
                       = {RootKey(ingestion.store.nodes[n].properties)}

\* both projects wrote a module of the same qualified name, and one of them
\* a function that its module defines
C21_Witness ==
    /\ ingestion # Nil
    /\ DOMAIN ingestion.store.nodes
           = {RootKey("a"), RootKey("b"), <<"a", 10>>, <<"a", 11>>, <<"b", 10>>}
    /\ [from |-> <<"a", 10>>, type |-> "DEFINES", to |-> <<"a", 11>>]
           \in DOMAIN ingestion.store.relationships


(***************************************************************************)
(* Claims about what a tool bound to one project returns (SpecTools)       *)
(***************************************************************************)

\* the project the server's ingestor is bound to: the name of the project root
BoundProject == 40

\* the nodes of a project: those its Project node reaches by containment
RECURSIVE ContainedBy(_, _)
ContainedBy(g, seen) ==
    LET next == seen \cup {e.dst : e \in {e \in g.edges :
                                            e.type \in ContainmentTypes /\ e.src \in seen}}
    IN  IF next = seen THEN seen ELSE ContainedBy(g, next)

SubgraphOf(g, project) == ContainedBy(g, {project}) \ {project}

\* C22: a query tool bound to project P returns only rows about nodes of P's
\* subgraph, whatever other projects the store holds: every caller that
\* query_callers lists is a node of the bound project.
C22_RowsWithinProject ==
    (/\ Answered
     /\ request.tool = "query_callers"
     /\ ~IsError(result)
     /\ HasNode(graph, BoundProject, {"Project"}))
        => \A i \in DOMAIN result.results :
               result.results[i].caller \in SubgraphOf(graph, BoundProject)


(***************************************************************************)
(* Claims about rows and their depths (SpecTools)                          *)
(***************************************************************************)

\* the lengths of the CALLS paths by which a caller reaches the function
DepthsOf(g, caller, function_name, max_depth) ==
    {Len(p) - 1 : p \in {p \in PathsInto(g, "CALLS", function_name, max_depth) :
                            Last(p) = caller}}

\* C23: in a callers result with max_depth > 1 each caller appears in at most
\* one row, and that row carries the smallest depth at which the caller
\* reaches the target.
C23_CallersDeduplicated ==
    (/\ Answered
     /\ request.tool = "query_callers"
     /\ ~IsError(result)
     /\ Get(request, "max_depth", CallersDefaultDepth) > 1)
        => /\ \A i, j \in DOMAIN result.results :
                 result.results[i].caller = result.results[j].caller => i = j
           /\ \A i \in DOMAIN result.results :
                 \A d \in DepthsOf(graph, result.results[i].caller,
                                   request.function_name, request.max_depth) :
                     result.results[i].depth <= d


\* the rows the two implementations queries return, IMPLEMENTS first
FetchedImplementations ==
    ImplementationRows(graph, request.interface_name, "IMPLEMENTS",
                       Get(request, "include_indirect", FALSE))
    \o ImplementationRows(graph, request.interface_name, "INHERITS",
                          Get(request, "include_indirect", FALSE))

ImplementationsAnswered ==
    Answered /\ request.tool = "query_implementations" /\ ~IsError(result)

\* C24: implementations returns each implementing class exactly once, with
\* the least depth over all its IMPLEMENTS and INHERITS rows, the list
\* sorted ascending by (depth, class name); inheritance_depth has exactly
\* one entry per returned class, with that depth.
C24_ImplementationsMinDepth ==
    ImplementationsAnswered =>
        LET listed == result.implementations
            rows == FetchedImplementations
        IN  /\ \A i, j \in DOMAIN listed :
                  listed[i].class_name = listed[j].class_name => i = j
            /\ {listed[i].class_name : i \in DOMAIN listed}
                   = {rows[k].class_name : k \in DOMAIN rows}
            /\ \A i \in DOMAIN listed :
                  \A k \in DOMAIN rows :
                      rows[k].class_name = listed[i].class_name
                          => listed[i].depth <= rows[k].depth
            /\ \A i, j \in DOMAIN listed :
                  i < j => LexLess(<<listed[i].depth, listed[i].class_name>>,
                                   <<listed[j].depth, listed[j].class_name>>)
            /\ DOMAIN result.inheritance_depth
                   = {listed[i].class_name : i \in DOMAIN listed}
            /\ \A i \in DOMAIN listed :
                  result.inheritance_depth[listed[i].class_name] = listed[i].depth

\* class 47 reaches 45 by IMPLEMENTS at depth 2 and by INHERITS at depth 1
\* and is listed once, at depth 1, after 46
C24_Witness ==
    /\ ImplementationsAnswered
    /\ graph = TwoProjectGraph
    /\ request.interface_name = 45
    /\ Len(FetchedImplementations) = 3
    /\ Len(result.implementations) = 2
    /\ result.implementations[2].class_name = 47
    /\ result.implementations[2].depth = 1


(***************************************************************************)
(* Claims about empty traversals (SpecTools)                               *)
(***************************************************************************)

\* the name the request asks about
TargetOf(r) ==
    CASE r.tool = "query_callers" -> r.function_name
      [] r.tool = "query_dependencies" -> r.target
      [] r.tool = "query_implementations" -> r.interface_name
      [] r.tool = "query_call_graph" -> r.entry_point
      [] r.tool = "query_hierarchy" -> r.class_name
      [] r.tool = "query_module_exports" -> r.module_name

\* the kinds of node the tool is asked about
TargetLabels(tool) ==
    CASE tool = "query_callers" -> {"Function", "Method"}
      [] tool = "query_dependencies" -> {"Module", "Function", "Method", "Class"}
      [] tool = "query_implementations" -> {"Class"}
      [] tool = "query_call_graph" -> {"Function", "Method"}
      [] tool = "query_hierarchy" -> {"Class"}
      [] tool = "query_module_exports" -> {"Module"}

TargetExists == HasNode(graph, TargetOf(request), TargetLabels(request.tool))

\* the store was asked whether the target exists
ExistenceChecked == \E i \in DOMAIN issued : issued[i].query_name = "check"

\* the rows the result lists besides the entry point itself
Listed(r) ==
    IF Has(r, "nodes") THEN Len(r.edges) ELSE ShownRows(r)

\* C25: for a target that exists but has no matching relationships a prebuilt
\* tool returns a success result with metadata and no rows, not an error;
\* NODE_NOT_FOUND is returned only when the traversal was empty, the
\* existence check was made, and the target does not exist.
C25_EmptyIsSuccess ==
    (Answered /\ request.tool \in PrebuiltTools) =>
        /\ ErrorCodeOf(result) = "NODE_NOT_FOUND"
              => ExistenceChecked /\ ~TargetExists
        /\ (TargetExists /\ ExistenceChecked)
              => /\ ~IsError(result)
                 /\ Has(result, "metadata")
                 /\ Listed(result) = 0

\* function 42 of the two-project graph calls others and is called by none
C25_Witness ==
    /\ Answered
    /\ graph = TwoProjectGraph
    /\ request.tool = "query_callers"
    /\ request.function_name = 42
    /\ ExistenceChecked
    /\ ~IsError(result)
    /\ result.results = <<>>
    /\ result.metadata.row_count = 0


(***************************************************************************)
(* Claims about the call graph (SpecTools)                                 *)
(***************************************************************************)

\* C26: every edge {from, to} of a call_graph result is a call relationship
\* of the graph: the store holds a CALLS edge from the node `from` to the
\* node `to`, for every max_depth in [1,5].
C26_EdgesAreCalls ==
    (Answered /\ request.tool = "query_call_graph" /\ ~IsError(result))
        => \A i \in DOMAIN result.edges :
               Edge(result.edges[i].from, "CALLS", result.edges[i].to) \in graph.edges


(***************************************************************************)
(* Claims about keywords inside identifiers (SpecAdhoc)                    *)
(***************************************************************************)

SubstringKeywords == {KwCREATE, KwDELETE, KwDROP, KwMERGE}

HasKeywordSubstring(query) ==
    \E kw \in SubstringKeywords : Contains(Upper(query), kw)

\* C27: the ad-hoc guard matches keywords as substrings of the upper-cased
\* query: a query in which CREATE, DELETE, DROP or MERGE occurs anywhere,
\* also when only inside an identifier or property name such as created_at,
\* called with a valid limit, is rejected with FORBIDDEN_OPERATION and no
\* statement is issued to the store.
C27_SubstringRejected ==
    (AdhocDone /\ LimitInRange(request) /\ HasKeywordSubstring(request.query))
        => /\ ErrorCodeOf(result) = "FORBIDDEN_OPERATION"
           /\ issued = <<>>
           /\ ~graph.modified

\* a read of the property created_at, with no mutation keyword as a word, was
\* rejected
C27_Witness ==
    /\ AdhocDone
    /\ request.query = <<"M", "A", "T", "C", "H", " ", "(", "n", ")", " ">>
                           \o <<"n", ".", "c", "r", "e", "a", "t", "e", "d", "_", "a", "t">>
    /\ ~HasMutationWord(request.query)
    /\ ErrorCodeOf(result) = "FORBIDDEN_OPERATION"
    /\ issued = <<>>


(***************************************************************************)
(* Claims about the LIMIT inside the queries (SpecTools)                   *)
(***************************************************************************)

LimitedTools == {"query_hierarchy", "query_dependencies", "query_implementations"}

LimitedAnswered == Answered /\ request.tool \in LimitedTools /\ ~IsError(result)

\* the relationships of the store a query over these types into, or out
\* of, the named node matches at depth 1
EdgesInto(types, name) ==
    {e \in graph.edges : e.type \in types /\ e.dst = name}

EdgesOutOf(types, name) ==
    {e \in graph.edges : e.type \in types /\ e.src = name}

\* each list of the result holds no more rows than the LIMIT of its query
WithinQueryLimits ==
    /\ request.tool = "query_hierarchy"
           => /\ Len(result.ancestors) <= AncestorsQueryLimit
              /\ Len(result.descendants) <= DescendantsQueryLimit
    /\ request.tool = "query_dependencies"
           => \A list \in {result.imports, result.calls} :
                  Len(list) <= IF result.metadata.include_transitive
                               THEN TransitiveDependencyLimit
                               ELSE DirectDependencyLimit
    /\ request.tool = "query_implementations"
           => Len(result.implementations) <= 2 * ImplementationsQueryLimit

\* C28: hierarchy, dependencies and implementations always report
\* truncated = false with row_count equal to total_count, both the number of
\* rows listed, and list no more rows than the LIMIT embedded in their
\* queries (20/50, 50/100, 100 per query): rows the LIMIT dropped are never
\* signalled.
C28_LimitNeverSignalled ==
    LimitedAnswered =>
        /\ ~result.metadata.truncated
        /\ result.metadata.row_count = result.metadata.total_count
        /\ result.metadata.row_count = ShownRows(result)
        /\ WithinQueryLimits

\* class 2 has more subclasses in the store than the descendant query's
\* LIMIT; the answer lists LIMIT of them and reports nothing dropped
C28_Witness ==
    /\ LimitedAnswered
    /\ request.tool = "query_hierarchy"
    /\ Has(request, "direction") /\ request.direction = "down"
    /\ Cardinality(EdgesInto({"INHERITS"}, request.class_name))
           > DescendantsQueryLimit
    /\ Len(result.descendants) = DescendantsQueryLimit
    /\ result.metadata.total_count = DescendantsQueryLimit
    /\ ~result.metadata.truncated

\* function 1 calls and imports more than the direct dependency LIMIT
C28_WitnessDependencies ==
    /\ LimitedAnswered
    /\ request.tool = "query_dependencies"
    /\ ~result.metadata.include_transitive
    /\ Cardinality(EdgesOutOf({"CALLS"}, request.target)) > DirectDependencyLimit
    /\ Len(result.calls) = DirectDependencyLimit
    /\ ~result.metadata.truncated


(***************************************************************************)
(* Claims about exceptions of the store (SpecFaults)                       *)
(***************************************************************************)

\* the invocation, its answer, and whether a call into the store raised
Invocation == tasks[1]

HandlerReturned == Invocation.result # Nil

IsDictionary(r) == IsError(r) \/ Has(r, "metadata")

TextOfTimeout == <<"t", "i", "m", "e", "o", "u", "t">>

\* a call the handler made into the store raised an exception that is not
\* a timeout
RaisedOtherThanTimeout ==
    /\ issued # <<>>
    /\ \/ Invocation.fault = "Exception"
       \/ /\ Invocation.request.tool = "query_cypher"
          /\ Invocation.store.kind = "raise"
          /\ ~Contains(Lower(Invocation.store.text), TextOfTimeout)

\* the cycle-detection statement raised
CycleQueryRaised ==
    /\ Invocation.fault = CycleQueryFault
    /\ \E i \in DOMAIN issued : issued[i].query_name = "circular"

\* C29: every prebuilt tool and the ad-hoc tool return a dictionary whatever
\* exception the store raises; a failure of the cycle-detection query is
\* swallowed as "no cycle"; an exception that is neither node-not-found nor
\* a timeout is reported with code UNKNOWN_ERROR.
C29_StoreExceptionsReported ==
    HandlerReturned =>
        /\ IsDictionary(Invocation.result)
        /\ CycleQueryRaised
               => /\ ~IsError(Invocation.result)
                  /\ Invocation.result.circular_dependencies = <<>>
                  /\ Invocation.result.warnings = <<>>
        /\ RaisedOtherThanTimeout
               => ErrorCodeOf(Invocation.result) = "UNKNOWN_ERROR"

\* C29, the prebuilt tools alone
C29_PrebuiltExceptionsReported ==
    (HandlerReturned /\ Invocation.request.tool \in PrebuiltTools)
        => C29_StoreExceptionsReported

\* the cycle query of a class on an inheritance cycle raised and the answer
\* lists the class's ancestors and no cycle
C29_CycleFailureSwallowed ==
    /\ HandlerReturned
    /\ CycleQueryRaised
    /\ graph = CyclicGraph
    /\ detect_circular_inheritance(graph, Invocation.request.class_name) # <<>>
    /\ ~IsError(Invocation.result)
    /\ Invocation.result.ancestors # <<>>
    /\ Invocation.result.circular_dependencies = <<>>


(***************************************************************************)
(* Claims about the initialized flag and the registry (Spec)              *)
(***************************************************************************)

\* C30: in every server state from startup through shutdown, if the server
\* reports itself initialized then the tools registry is not None, so a
\* request that passes the initialization check can obtain the registry.
C30_InitializedHasRegistry ==
    server_initialized => mcp_tools_registry # Nil

\* the same between the end of startup and the start of shutdown
C30_WhileServing ==
    (phase = "serving" /\ server_initialized) => mcp_tools_registry # Nil

\* after a successful start and a shutdown the flag is still set and the
\* registry is gone
C30_StoppedInitialized ==
    /\ phase = "stopped"
    /\ server_initialized
    /\ mcp_tools_registry = Nil


=============================================================================
